---- MODULE Spec2Model ----
(***************************************************************************)
(* The shipment-tracking service.                                          *)
(*  - Delivery client: the WhatsAppSender class with its circuit breaker   *)
(*    and retry loop (src/src/services/WhatsAppSender.ts); one instance    *)
(*    is shared by a set of callers.                                       *)
(*  - Customer resolver: CustomerMatcher behind the MatcherProxy           *)
(*    (src/src/services/CustomerMatcher.ts, src/index.ts).                 *)
(*  - Text extractor: GuideParser (src/services/GuideParser.ts).           *)
(*  - Upload entry point: POST /api/process-guide (src/api/routes.ts).     *)
(*  - Folder watcher: FolderWatcher and processGuide                       *)
(*    (src/src/watchers/FolderWatcher.ts, src/index.ts).                   *)
(* Every action is the code that runs between two awaits of an async       *)
(* method.                                                                 *)
(***************************************************************************)
EXTENDS Integers, Sequences, FiniteSets, TLC

(* ------------------------------ bounds --------------------------------- *)
NumProcs == 2
MaxThreshold == 2
MaxRetriesBound == 2
ResetTimeout == 2
MaxTime == 4
MaxBackoffRetries == 6
MaxMultiplier == 2
MaxFiles == 2

\* defaults of the retry configuration (config/retry.ts)
DefaultInitialDelayMs == 1000
DefaultMaxDelayMs == 10000
DefaultBackoffMultiplier == 2

Procs == 1..NumProcs

(* ------------------------------ errors --------------------------------- *)
\* What a gateway request can reject with.  isError: `instanceof Error`;
\* message: the network code contained in error.message, or "other";
\* hasResponse/status: error.response and error.response.status.
NetCodes == {"ETIMEDOUT", "ECONNRESET", "ECONNREFUSED", "ENOTFOUND"}

Statuses == {304, 400, 408, 429, 499, 500}

\* statuses of the plain objects the unit tests reject with
MockStatuses == {401, 500}

Err(ie, m, hr, st, ax) ==
    [isError |-> ie, message |-> m, hasResponse |-> hr, status |-> st, isAxiosError |-> ax]

\* Errors the gateway call produces: Error objects carrying a network code,
\* an Error with another message, an axios error without a response, axios
\* errors carrying an HTTP status, and the plain objects (no Error instance)
\* the unit tests reject with.
GatewayErrors ==
    {Err(TRUE, m, FALSE, 0, FALSE) : m \in NetCodes \cup {"other"}}
        \cup {Err(TRUE, "other", FALSE, 0, TRUE)}
        \cup {Err(TRUE, "other", TRUE, st, TRUE) : st \in Statuses}
        \cup {Err(FALSE, "other", TRUE, st, TRUE) : st \in MockStatuses}

NoError == Err(FALSE, "none", FALSE, 0, FALSE)

(* ----------------------------- variables ------------------------------- *)
VARIABLES
    cfg,              \* retryConfig / circuitBreakerConfig of the instance
    circuitState,     \* this.circuitState
    failureCount,     \* this.failureCount
    lastFailureTime,  \* this.lastFailureTime
    now,              \* Date.now()
    pc,               \* per caller: position inside sendGuide
    op,               \* per caller: operation in progress, "text" or "media"
    attempt,          \* per caller: loop variable of executeWithRetry
    caught,           \* per caller: error of the last failed request (catch, line 229)
    result,           \* per caller: value sendGuide returned ("none" before)
    reqs,             \* per caller: gateway requests issued, per operation
    opResult,         \* per caller: how each operation ended
    delays,           \* per caller: delays slept so far in the current operation
    consecFailures,   \* recorded failures since construction, reset or success
    sinceSuccess,     \* the current streak started at a success
    lastRecordedAt,   \* time of the most recent recordFailure call (0: none)
    discarded,        \* failureCount the most recent recordSuccess call wiped
    guideStreak,      \* sendGuide calls in a row that a gateway failure ended
    hpc,              \* position inside checkHealth
    hreport,          \* value checkHealth returned
    orders,           \* the orders table, per order number
    dbConnected,      \* MatcherProxy.matcher is set
    storeUp,          \* the pool can reach the database
    mpc,              \* per flow: position inside findCustomer
    guide,            \* per flow: the guideData findCustomer was called with
    found,            \* per flow: what findCustomer returned or threw
    queried,          \* per flow: tier queries issued by the call, in order
    updated,          \* per flow: what updateOrderTracking returned or threw
    shipped,          \* orders for which updateOrderTracking returned true
    ppc,              \* per flow: position inside GuideParser.parse
    doc,              \* per flow: the file parse was called with
    extraction,       \* per flow: how extractData classified the text and ended
    parsed,           \* per flow: what parse returned or threw
    rpc,              \* per flow: position inside the handler of the documents
    files,            \* per flow: the files handed to the handler
    cur,              \* per flow: index of the file being processed
    work,             \* per flow: what has been done for the current file
    results,          \* per flow: what was done for the files already processed
    response,         \* per flow: the response sent (status 0: none yet)
    folder,           \* paths of the files under the watch folder
    addEvents,        \* paths whose 'add' event has not been handled yet
    processedFiles,   \* FolderWatcher.processedFiles
    wpc,              \* per path: position of the 'add' handler started for it
    invocations       \* per document: calls of the onFile callback

breaker == <<circuitState, failureCount, lastFailureTime>>
calls == <<pc, op, attempt, caught, result, reqs, opResult, delays>>
ghost == <<consecFailures, sinceSuccess, lastRecordedAt, discarded, guideStreak>>
health == <<hpc, hreport>>
sender == <<circuitState, failureCount, lastFailureTime, now, pc, op, attempt, caught,
            result, reqs, opResult, delays, consecFailures, sinceSuccess,
            lastRecordedAt, discarded, guideStreak, hpc, hreport>>
resolver == <<orders, dbConnected, storeUp, mpc, guide, found, queried, updated, shipped>>
parser == <<ppc, doc, extraction, parsed>>
route == <<rpc, files, cur, work, results, response>>
watcher == <<folder, addEvents, processedFiles, wpc, invocations>>
outside == <<resolver, parser, route, watcher>>
offResolver == <<sender, parser, route, watcher>>
offParser == <<sender, resolver, route, watcher>>
offWatcher == <<sender, resolver, parser, route>>
vars == <<cfg, circuitState, failureCount, lastFailureTime, now, pc, op, attempt,
          caught, result, reqs, opResult, delays, consecFailures, sinceSuccess,
          lastRecordedAt, discarded, guideStreak, hpc, hreport, orders, dbConnected, storeUp, mpc,
          guide, found, queried, updated, shipped, ppc, doc, extraction, parsed, rpc,
          files, cur, work, results, response, folder, addEvents,
          processedFiles, wpc, invocations>>

CB == [circuitState |-> circuitState, failureCount |-> failureCount,
       lastFailureTime |-> lastFailureTime]

SetCB(cb) ==
    /\ circuitState' = cb.circuitState
    /\ failureCount' = cb.failureCount
    /\ lastFailureTime' = cb.lastFailureTime

(* ------------------------ circuit breaker code ------------------------- *)
freshBreaker == [circuitState |-> "CLOSED", failureCount |-> 0, lastFailureTime |-> 0]

resetCircuitBreaker(cb) ==
    [circuitState |-> "CLOSED", failureCount |-> 0, lastFailureTime |-> 0]

\* an OPEN circuit lets the call through whatever the elapsed time
canMakeRequest_openAllows(cb, t, c) ==
    IF cb.circuitState = "OPEN"
    THEN [allowed |-> TRUE, cb |-> [cb EXCEPT !.circuitState = "HALF_OPEN"]]
    ELSE [allowed |-> TRUE, cb |-> cb]

canMakeRequest(cb, t, c) ==
    IF cb.circuitState = "CLOSED" THEN [allowed |-> TRUE, cb |-> cb]
    ELSE IF cb.circuitState = "OPEN" THEN
        IF t - cb.lastFailureTime >= c.resetTimeoutMs
        THEN [allowed |-> TRUE, cb |-> [cb EXCEPT !.circuitState = "HALF_OPEN"]]
        ELSE [allowed |-> FALSE, cb |-> cb]
    ELSE [allowed |-> TRUE, cb |-> cb]

\* the state is closed but the counter is kept
recordSuccess_keepsCount(cb) ==
    [cb EXCEPT !.circuitState = "CLOSED"]

recordSuccess(cb) ==
    [cb EXCEPT !.failureCount = 0, !.circuitState = "CLOSED"]

\* the threshold is compared with > instead of >=
recordFailure_strict(cb, t, c) ==
    LET counted == [cb EXCEPT !.failureCount = @ + 1, !.lastFailureTime = t]
    IN  IF cb.circuitState = "HALF_OPEN" THEN [counted EXCEPT !.circuitState = "OPEN"]
        ELSE IF counted.failureCount > c.failureThreshold
             THEN [counted EXCEPT !.circuitState = "OPEN"]
             ELSE counted

\* a failed HALF_OPEN trial re-opens without refreshing the timestamp
recordFailure_noRefresh(cb, t, c) ==
    LET counted == [cb EXCEPT !.failureCount = @ + 1, !.lastFailureTime = t]
    IN  IF cb.circuitState = "HALF_OPEN"
        THEN [cb EXCEPT !.failureCount = @ + 1, !.circuitState = "OPEN"]
        ELSE IF counted.failureCount >= c.failureThreshold
             THEN [counted EXCEPT !.circuitState = "OPEN"]
             ELSE counted

recordFailure(cb, t, c) ==
    LET counted == [cb EXCEPT !.failureCount = @ + 1, !.lastFailureTime = t]
    IN  IF cb.circuitState = "HALF_OPEN" THEN [counted EXCEPT !.circuitState = "OPEN"]
        ELSE IF counted.failureCount >= c.failureThreshold
             THEN [counted EXCEPT !.circuitState = "OPEN"]
             ELSE counted

\* every HTTP error status is retried: the 4xx exclusion is missing
isRetryableError_all4xx(e) ==
    IF e.isError /\ e.message \in NetCodes THEN TRUE
    ELSE IF e.hasResponse /\ e.status # 0 /\ e.status >= 400 THEN TRUE
    ELSE IF e.isAxiosError /\ ~e.hasResponse THEN TRUE
    ELSE FALSE

isRetryableError(e) ==
    IF e.isError /\ e.message \in NetCodes THEN TRUE
    ELSE IF e.hasResponse /\ e.status # 0 /\ e.status >= 500 THEN TRUE
    ELSE IF e.hasResponse /\ e.status = 429 THEN TRUE
    ELSE IF e.hasResponse /\ e.status = 408 THEN TRUE
    ELSE IF e.hasResponse /\ e.status # 0 /\ e.status >= 400 /\ e.status < 500 THEN FALSE
    ELSE IF e.isAxiosError /\ ~e.hasResponse THEN TRUE
    ELSE FALSE

\* the last retry is never made
givesUp_offByOne(retryable, a, c) == ~retryable \/ a + 1 >= c.maxRetries

\* one attempt more than the loop bound allows
givesUp_oneMore(retryable, a, c) == ~retryable \/ a = c.maxRetries + 1

\* line 246: the catch block gives up (records the failure and rethrows)
givesUp(retryable, a, c) == ~retryable \/ a = c.maxRetries

\* a rejection is recorded as a failure before it is thrown
loopHead_records(cb, t, c) ==
    LET r == canMakeRequest(cb, t, c)
    IN  IF r.allowed THEN r ELSE [allowed |-> FALSE, cb |-> recordFailure(r.cb, t, c)]

\* lines 192-202: loop head of executeWithRetry; a rejection throws without
\* touching the breaker
loopHead(cb, t, c) == canMakeRequest(cb, t, c)

\* the media operation is started whether or not the text operation succeeded
sendGuideNext_continues(o, ended) ==
    IF o = "text" THEN [pc |-> "start", op |-> "media", result |-> "none"]
    ELSE [pc |-> "done", op |-> o, result |-> IF ended = "ok" THEN "true" ELSE "false"]

\* lines 367-404: what sendGuide does when an operation has ended.
\* ended is "ok" when the awaited operation resolved, anything else it threw.
sendGuideNext(o, ended) ==
    IF ended = "ok"
    THEN IF o = "text" THEN [pc |-> "start", op |-> "media", result |-> "none"]
                       ELSE [pc |-> "done", op |-> o, result |-> "true"]
    ELSE [pc |-> "done", op |-> o, result |-> "false"]

\* a probe that succeeds is recorded as a success of the breaker
checkHealthDone_records(cb, ok) ==
    LET after == IF ok THEN recordSuccess(cb) ELSE cb
    IN  [cb |-> after,
         report |-> [healthy |-> ok, circuitState |-> after.circuitState, threw |-> FALSE]]

\* lines 308-353: checkHealth, after the probe has resolved (ok) or rejected
checkHealthDone(cb, ok) ==
    [cb |-> cb, report |-> [healthy |-> ok, circuitState |-> cb.circuitState, threw |-> FALSE]]

(* ------------------------------- backoff ------------------------------- *)
RECURSIVE Pow(_, _)
\* Math.pow for a non-negative integer exponent; Math.pow(0, 0) is 1
Pow(b, e) == IF e = 0 THEN 1 ELSE b * Pow(b, e - 1)

Min(a, b) == IF a <= b THEN a ELSE b

calculateBackoffDelay(a, c) ==
    LET delay == c.initialDelayMs * Pow(c.backoffMultiplier, a)
    IN  Min(delay, c.maxDelayMs)

\* the loop variable is passed as it is, not minus one
retryDelay_fromAttempt(a, c) == calculateBackoffDelay(a, c)

\* lines 204-206: the delay slept at the head of iteration a > 0
retryDelay(a, c) == calculateBackoffDelay(a - 1, c)

(* --------------------------- customer resolver ------------------------- *)
\* the two entry points that process a document: the HTTP upload route and
\* the folder watcher
Flows == {"upload", "watch"}

\* order numbers, oldest first (ORDER BY created_at DESC picks the last)
OrderLog == <<"ORD-1", "ORD-2">>

OrderNumbers == {OrderLog[i] : i \in 1..Len(OrderLog)}

NULL == "NULL"

\* column values of the orders table
PhoneNumbers == {"573001234567", "573009998877"}
CustomerNames == {"Ana Maria Torres", "Pedro Lopez"}
ShippingAddresses == {"Calle 10 # 5-20, Bogota", "Carrera 7 # 3-11, Cali"}
ProcessingStatuses == {"pending", "confirmed", "processing"}

Rows == [phone_number : PhoneNumbers,
         customer_name : CustomerNames,
         shipping_address : ShippingAddresses,
         processing_status : ProcessingStatuses,
         tracking_number : {NULL}]

\* fields of the guideData a document yields ("" is absent)
GuidePhones == {"", "573001234567"}
GuideNames == {"", "Ana Torres"}
GuideAddresses == {"", "Calle 10 # 5-20"}
GuideCities == {"", "Bogota"}

Guides == [customerPhone : GuidePhones,
           customerName : GuideNames,
           shippingAddress : GuideAddresses,
           city : GuideCities,
           trackingNumber : {"SV111222333"}]

\* phone.replace(/\D/g, '').slice(-10)
sanitizePhone(phone) ==
    IF phone = "573001234567" THEN "3001234567" ELSE phone

\* name.toLowerCase().split(/\s+/)[0]
firstNamePart(name) ==
    IF name = "ana torres" THEN "ana" ELSE name

\* toLowerCase() / LOWER()
Lower(str) ==
    CASE str = "Ana Maria Torres" -> "ana maria torres"
      [] str = "Pedro Lopez" -> "pedro lopez"
      [] str = "Calle 10 # 5-20, Bogota" -> "calle 10 # 5-20, bogota"
      [] str = "Carrera 7 # 3-11, Cali" -> "carrera 7 # 3-11, cali"
      [] str = "Calle 10 # 5-20" -> "calle 10 # 5-20"
      [] str = "Bogota" -> "bogota"
      [] str = "Ana Torres" -> "ana torres"
      [] str = "Unknown" -> "unknown"
      [] OTHER -> str

\* column LIKE '%part%'
Like(column, part) ==
    \/ column = part
    \/ <<column, part>> \in {<<"573001234567", "3001234567">>,
                             <<"ana maria torres", "ana">>,
                             <<"calle 10 # 5-20, bogota", "calle 10 # 5-20">>,
                             <<"calle 10 # 5-20, bogota", "bogota">>}

\* the tracking_number IS NULL condition is missing
IsEligible_anyTracking(row) ==
    row.processing_status \in {"confirmed", "processing"}

\* processing_status IN ('confirmed', 'processing') AND tracking_number IS NULL
IsEligible(row) ==
    /\ row.processing_status \in {"confirmed", "processing"}
    /\ row.tracking_number = NULL

\* ORDER BY created_at DESC LIMIT 1 over the rows S: the newest, or NULL
NewestOf(S) ==
    IF S = {} THEN NULL
    ELSE OrderLog[CHOOSE i \in 1..Len(OrderLog) :
                    /\ OrderLog[i] \in S
                    /\ \A j \in 1..Len(OrderLog) : OrderLog[j] \in S => j <= i]

matchByPhone(st, phone) ==
    LET sanitized == sanitizePhone(phone)
    IN  NewestOf({o \in OrderNumbers :
                    Like(st[o].phone_number, sanitized) /\ IsEligible(st[o])})

matchByName(st, name, city) ==
    LET part == firstNamePart(Lower(name))
    IN  NewestOf({o \in OrderNumbers :
                    /\ Like(Lower(st[o].customer_name), part)
                    /\ IsEligible(st[o])
                    /\ city # "" => Like(Lower(st[o].shipping_address), Lower(city))})

matchByAddress(st, address) ==
    NewestOf({o \in OrderNumbers :
                Like(Lower(st[o].shipping_address), Lower(address)) /\ IsEligible(st[o])})

Tiers == <<"phone", "name", "address">>

TierNames == {"phone", "name", "address"}

Confidence(tier) == CASE tier = "phone" -> 100 [] tier = "name" -> 80 [] tier = "address" -> 60

\* the field of guideData a tier is guarded by (lines 21, 27, 33)
TierField(g, tier) ==
    CASE tier = "phone" -> g.customerPhone
      [] tier = "name" -> g.customerName
      [] tier = "address" -> g.shippingAddress

\* the row the query of a tier returns
matchBy(tier, st, g) ==
    CASE tier = "phone" -> matchByPhone(st, g.customerPhone)
      [] tier = "name" -> matchByName(st, g.customerName, g.city)
      [] tier = "address" -> matchByAddress(st, g.shippingAddress)

\* the name tier is tried before the phone tier
nextTier_nameFirst(g, from) ==
    LET order == <<"name", "phone", "address">>
        later == {i \in from..3 : TierField(g, order[i]) # ""}
    IN  IF later = {} THEN "none"
        ELSE order[CHOOSE i \in later : \A j \in later : i <= j]

\* lines 20-38: the first tier at position from or later whose field is set
nextTier(g, from) ==
    LET later == {i \in from..Len(Tiers) : TierField(g, Tiers[i]) # ""}
    IN  IF later = {} THEN "none"
        ELSE Tiers[CHOOSE i \in later : \A j \in later : i <= j]

TierIndex(tier) == CHOOSE i \in 1..Len(Tiers) : Tiers[i] = tier

NoMatch == [kind |-> "none", order |-> NULL, matchedBy |-> "none", confidence |-> 0]
NullMatch == [kind |-> "null", order |-> NULL, matchedBy |-> "none", confidence |-> 0]
Match(o, tier) ==
    [kind |-> "match", order |-> o, matchedBy |-> tier, confidence |-> Confidence(tier)]
Thrown(message) ==
    [kind |-> message, order |-> NULL, matchedBy |-> "none", confidence |-> 0]

ThrownKinds == {"Database not connected", "query failed"}

\* a rejected query is swallowed and the call resolves to null
queryRejected_swallowed(tier) == NullMatch

\* lines 22, 28, 34: the awaited query rejects and nothing catches it
queryRejected(tier) == Thrown("query failed")

\* lines 138-155: UPDATE ... WHERE order_number = ?, affectedRows > 0
updateOrderTracking(st, orderNumber, trackingNumber, up) ==
    IF ~up THEN [store |-> st, returned |-> "false"]
    ELSE IF orderNumber \in OrderNumbers
         THEN [store |-> [st EXCEPT ![orderNumber].tracking_number = trackingNumber],
               returned |-> "true"]
         ELSE [store |-> st, returned |-> "false"]

NoGuide == [customerPhone |-> "", customerName |-> "", shippingAddress |-> "",
            city |-> "", trackingNumber |-> ""]

(* ----------------------------- text extractor -------------------------- *)
\* longest raw-text excerpt a record carries
RawTextCap == 1000

\* lengths of the texts a document yields
TextLengths == {0, 40, RawTextCap, 2 * RawTextCap}

\* A text, by what the regular expressions of GuideParser find in it: the
\* seven tests of detectImageType, then the matches of extractData.
Features == [hasCarrier : BOOLEAN, hasTracking : BOOLEAN, hasTimestamp : BOOLEAN,
             hasChatWords : BOOLEAN, hasAddressIndicators : BOOLEAN,
             hasWhatsAppHeader : BOOLEAN, hasWhatsAppTicks : BOOLEAN,
             trackingNumber : BOOLEAN, customerName : BOOLEAN,
             customerPhone : BOOLEAN, shippingAddress : BOOLEAN, city : BOOLEAN,
             length : TextLengths]

AnyFeature(t) ==
    \/ t.hasCarrier \/ t.hasTracking \/ t.hasTimestamp \/ t.hasChatWords
    \/ t.hasAddressIndicators \/ t.hasWhatsAppHeader \/ t.hasWhatsAppTicks
    \/ t.trackingNumber \/ t.customerName \/ t.customerPhone
    \/ t.shippingAddress \/ t.city

\* Texts that exist: a pattern needs characters to match, and the header
\* +57 3ddddddddd holds ten digits in a row, which the tracking patterns of
\* both functions and the phone pattern match as well.
IsText(t) ==
    /\ AnyFeature(t) => t.length > 0
    /\ t.hasWhatsAppHeader => (t.hasTracking /\ t.trackingNumber /\ t.customerPhone)

EmptyText == [hasCarrier |-> FALSE, hasTracking |-> FALSE, hasTimestamp |-> FALSE,
              hasChatWords |-> FALSE, hasAddressIndicators |-> FALSE,
              hasWhatsAppHeader |-> FALSE, hasWhatsAppTicks |-> FALSE,
              trackingNumber |-> FALSE, customerName |-> FALSE,
              customerPhone |-> FALSE, shippingAddress |-> FALSE, city |-> FALSE,
              length |-> 0]

Count(b) == IF b THEN 1 ELSE 0

\* lines 42-43
whatsappScore(t) ==
    Count(t.hasTimestamp) + Count(t.hasChatWords) + Count(t.hasAddressIndicators)
        + Count(t.hasWhatsAppHeader) + Count(t.hasWhatsAppTicks)

\* the chat test comes first and ignores the carrier token
detectImageType_chatFirst(t) ==
    IF whatsappScore(t) >= 2 THEN "whatsapp_chat"
    ELSE IF t.hasCarrier /\ t.hasTracking THEN "carrier_guide"
    ELSE "unknown"

detectImageType(t) ==
    IF t.hasCarrier /\ t.hasTracking THEN "carrier_guide"
    ELSE IF whatsappScore(t) >= 2 /\ ~t.hasCarrier THEN "whatsapp_chat"
    ELSE "unknown"

isWhatsAppChat(t) == detectImageType(t) = "whatsapp_chat"

NoRecord == [trackingNumber |-> "", customerName |-> "", customerPhone |-> "",
             shippingAddress |-> "", city |-> "", carrier |-> "", rawTextLength |-> 0]

\* lines 189-198: the record built from the matches
RecordOf(t) ==
    [trackingNumber |-> IF t.trackingNumber THEN "SV111222333" ELSE "UNKNOWN",
     customerName |-> IF t.customerName THEN "Ana Torres" ELSE "Unknown",
     customerPhone |-> IF t.customerPhone THEN "573001234567" ELSE "",
     shippingAddress |-> IF t.shippingAddress THEN "Calle 10 # 5-20" ELSE "",
     city |-> IF t.city THEN "Bogota" ELSE "",
     carrier |-> IF t.hasCarrier THEN "Servientrega" ELSE "Unknown",
     rawTextLength |-> Min(t.length, RawTextCap)]

\* a record needs a tracking number, a name and a phone
validGuide_needsBoth(t) == t.trackingNumber /\ t.customerName /\ t.customerPhone

\* line 188
validGuide(t) == t.trackingNumber /\ (t.customerName \/ t.customerPhone)

\* fields are extracted from carrier guides only
extractData_guidesOnly(t) ==
    IF isWhatsAppChat(t) THEN [kind |-> "WhatsAppChatDetectedError", record |-> NoRecord]
    ELSE IF detectImageType(t) = "carrier_guide" /\ validGuide(t)
         THEN [kind |-> "record", record |-> RecordOf(t)]
         ELSE [kind |-> "null", record |-> NoRecord]

\* lines 111-202
extractData(t) ==
    IF isWhatsAppChat(t) THEN [kind |-> "WhatsAppChatDetectedError", record |-> NoRecord]
    ELSE IF validGuide(t) THEN [kind |-> "record", record |-> RecordOf(t)]
    ELSE [kind |-> "null", record |-> NoRecord]

SupportedExtensions == {".pdf", ".png", ".jpg", ".jpeg", ".webp", ".bmp"}

\* every error is turned into null
parseCatch_swallows(kind) == "null"

\* lines 74-80: what parse does with an error that reaches its catch
parseCatch(kind) ==
    IF kind = "WhatsAppChatDetectedError" THEN "WhatsAppChatDetectedError" ELSE "null"

NotExtracted == [imageType |-> "none", kind |-> "none"]

\* line 73: the call of extractData, when the text has been read
extractionOf(t, ok) ==
    IF ok THEN [imageType |-> detectImageType(t), kind |-> extractData(t).kind]
    ELSE NotExtracted

\* lines 59-81, once the text has been read (ok) or reading has thrown
parseDone(t, ok) ==
    IF ~ok THEN [kind |-> parseCatch("read error"), record |-> NoRecord]
    ELSE LET r == extractData(t)
         IN  IF r.kind \in {"record", "null"} THEN r
             ELSE [kind |-> parseCatch(r.kind), record |-> NoRecord]

\* lines 59-81: parse of the document d, whose text is read (ok) or not
parseOutcome(d, ok) ==
    IF d.ext \in SupportedExtensions THEN parseDone(d.text, ok)
    ELSE [kind |-> "null", record |-> NoRecord]

NoDoc == [ext |-> "", text |-> EmptyText]
NotParsed == [kind |-> "none", record |-> NoRecord]

InitParser ==
    /\ ppc = [f \in Flows |-> "idle"]
    /\ doc = [f \in Flows |-> NoDoc]
    /\ extraction = [f \in Flows |-> NotExtracted]
    /\ parsed = [f \in Flows |-> NotParsed]

(* ---------------------------- upload entry point ----------------------- *)
\* texts of the uploaded documents: a carrier guide with every field, a chat
\* screenshot, and a document without text
GuideText == [hasCarrier |-> TRUE, hasTracking |-> TRUE, hasTimestamp |-> FALSE,
              hasChatWords |-> FALSE, hasAddressIndicators |-> TRUE,
              hasWhatsAppHeader |-> FALSE, hasWhatsAppTicks |-> FALSE,
              trackingNumber |-> TRUE, customerName |-> TRUE,
              customerPhone |-> TRUE, shippingAddress |-> TRUE, city |-> TRUE,
              length |-> 40]

ChatText == [hasCarrier |-> FALSE, hasTracking |-> FALSE, hasTimestamp |-> TRUE,
             hasChatWords |-> TRUE, hasAddressIndicators |-> TRUE,
             hasWhatsAppHeader |-> FALSE, hasWhatsAppTicks |-> FALSE,
             trackingNumber |-> FALSE, customerName |-> TRUE,
             customerPhone |-> TRUE, shippingAddress |-> TRUE, city |-> FALSE,
             length |-> 40]

\* a chat screenshot with its header, showing a phone and a tracking number
HeaderChatText == [hasCarrier |-> FALSE, hasTracking |-> TRUE, hasTimestamp |-> TRUE,
                   hasChatWords |-> FALSE, hasAddressIndicators |-> FALSE,
                   hasWhatsAppHeader |-> TRUE, hasWhatsAppTicks |-> TRUE,
                   trackingNumber |-> TRUE, customerName |-> FALSE,
                   customerPhone |-> TRUE, shippingAddress |-> FALSE, city |-> FALSE,
                   length |-> 40]

\* a carrier guide showing a phone and a tracking number, without a name
PhoneOnlyText == [hasCarrier |-> TRUE, hasTracking |-> TRUE, hasTimestamp |-> FALSE,
                  hasChatWords |-> FALSE, hasAddressIndicators |-> FALSE,
                  hasWhatsAppHeader |-> FALSE, hasWhatsAppTicks |-> FALSE,
                  trackingNumber |-> TRUE, customerName |-> FALSE,
                  customerPhone |-> TRUE, shippingAddress |-> FALSE, city |-> FALSE,
                  length |-> 40]

RouteTexts == {GuideText, PhoneOnlyText, ChatText, HeaderChatText, EmptyText}

\* the guideData handed to the matcher
ToGuide(r) ==
    [customerPhone |-> r.customerPhone, customerName |-> r.customerName,
     shippingAddress |-> r.shippingAddress, city |-> r.city,
     trackingNumber |-> r.trackingNumber]

\* the extension of the path a file is stored under: none, or a supported one
StoredExtensions == {"", ".png"}

\* a file multer stored for the request
Stored(e, t) == [ext |-> e, text |-> t, present |-> TRUE]

\* fs.unlinkSync(path)
unlinkSync(file) == [file EXCEPT !.present = FALSE]

\* the catch block leaves the file where it is
unlinkIfExists_skips(file) == file

\* lines 184, 253-255: if (fs.existsSync(path)) fs.unlinkSync(path)
unlinkIfExists(file) == IF file.present THEN unlinkSync(file) ELSE file

\* no call of updateOrderTracking
NoUpdate == [orderNumber |-> "none", trackingNumber |-> "", carrier |-> ""]

NoWork == [read |-> FALSE, parse |-> "none", record |-> NoRecord, called |-> {},
           match |-> "none", sent |-> "none", update |-> NoUpdate, result |-> "none"]

\* the write-back is skipped only when the order could not be matched
afterSend_always(sent) == "update"

\* lines 176, 225 of routes.ts and 87 of index.ts: if (sent)
afterSend(sent) == IF sent THEN "update" ELSE "send failed"

\* the arguments of updateOrderTracking: customer.orderNumber,
\* guideData.trackingNumber, guideData.carrier
updateArgs(customer, guideData) ==
    [orderNumber |-> customer.order, trackingNumber |-> guideData.trackingNumber,
     carrier |-> guideData.carrier]
NoResponse == [status |-> 0, success |-> FALSE, body |-> "none"]

\* lines 185-189, 257-274: the result a caught error is reported as
catchOutcome(kind) == IF kind = "WhatsAppChatDetectedError" THEN "chat" ELSE kind

\* lines 196-275: the response of a request with one file
singleResponse(outcome) ==
    CASE outcome = "not a guide" -> [status |-> 400, success |-> FALSE, body |-> outcome]
      [] outcome = "no customer" -> [status |-> 200, success |-> FALSE, body |-> outcome]
      [] outcome = "sent" -> [status |-> 200, success |-> TRUE, body |-> outcome]
      [] outcome = "send failed" -> [status |-> 500, success |-> FALSE, body |-> outcome]
      [] outcome = "chat" -> [status |-> 400, success |-> FALSE, body |-> outcome]
      [] outcome = "Database not connected" ->
            [status |-> 503, success |-> FALSE, body |-> outcome]
      [] OTHER -> [status |-> 500, success |-> FALSE, body |-> outcome]

\* line 192: the response of a request with several files
multiResponse == [status |-> 200, success |-> TRUE, body |-> "results"]

InitRoute ==
    /\ rpc = [f \in Flows |-> "idle"]
    /\ files = [f \in Flows |-> <<>>]
    /\ cur = [f \in Flows |-> 0]
    /\ work = [f \in Flows |-> NoWork]
    /\ results = [f \in Flows |-> <<>>]
    /\ response = [f \in Flows |-> NoResponse]

(* ------------------------------ folder watcher ------------------------- *)
\* names of the documents dropped into the watch folder
FileNames == {"guide.pdf", "scan.png", "notes.txt", ".draft.pdf"}

\* a path under the watch folder: in the folder itself or in its processed
\* subfolder
Paths == [dir : {"watch", "processed"}, name : FileNames]

\* path.basename(filePath)
basename(path) == path.name

\* path.extname(filePath).toLowerCase()
extname(path) ==
    CASE path.name \in {"guide.pdf", ".draft.pdf"} -> ".pdf"
      [] path.name = "scan.png" -> ".png"
      [] path.name = "notes.txt" -> ".txt"

\* line 24: ignored: /(^|[\/\\])\../
ignored(path) == path.name = ".draft.pdf"

\* lines 56-59
isValidFile(path) == extname(path) \in {".pdf", ".png", ".jpg", ".jpeg", ".webp"}

\* line 34: this.processedFiles.has(filePath)
alreadyProcessed(seen, path) == path \in seen

\* lines 62-68: the path the file is renamed to
processedPath(path) == [dir |-> "processed", name |-> basename(path)]

InitWatcher ==
    /\ folder = {}
    /\ addEvents = {}
    /\ processedFiles = {}
    /\ wpc = [path \in Paths |-> "idle"]
    /\ invocations = [n \in FileNames |-> 0]

(* -------------------------------- Init --------------------------------- *)
Configs == [failureThreshold : 1..MaxThreshold,
            resetTimeoutMs : {ResetTimeout},
            maxRetries : 0..MaxRetriesBound,
            initialDelayMs : {DefaultInitialDelayMs},
            maxDelayMs : {DefaultMaxDelayMs},
            backoffMultiplier : {DefaultBackoffMultiplier}]

\* Retry configurations the environment can set: parseInt / parseFloat of the
\* variables, unvalidated.  The multiplier ranges over the integers from 0.
BackoffConfigs == [failureThreshold : {MaxThreshold},
                   resetTimeoutMs : {ResetTimeout},
                   maxRetries : {MaxBackoffRetries},
                   initialDelayMs : {0 - DefaultInitialDelayMs, DefaultInitialDelayMs},
                   maxDelayMs : {DefaultMaxDelayMs \div 20, DefaultMaxDelayMs},
                   backoffMultiplier : 0..MaxMultiplier]

NoReqs == [text |-> 0, media |-> 0]
NoResults == [text |-> "none", media |-> "none"]
\* no sendGuide call has failed since the sender was fresh, reset, or delivered
NoStreak == [calls |-> 0, allText |-> TRUE]

\* one more sendGuide call returned false because operation o failed at the
\* gateway; calls are counted up to the threshold
streakAfter(st, o, c) ==
    [calls |-> Min(st.calls + 1, c.failureThreshold),
     allText |-> st.allText /\ o = "text"]

NoReport == [healthy |-> FALSE, circuitState |-> "none", threw |-> FALSE]

InitSender ==
    /\ circuitState = freshBreaker.circuitState
    /\ failureCount = freshBreaker.failureCount
    /\ lastFailureTime = freshBreaker.lastFailureTime
    /\ now = 1
    /\ pc = [p \in Procs |-> "idle"]
    /\ op = [p \in Procs |-> "text"]
    /\ attempt = [p \in Procs |-> 0]
    /\ caught = [p \in Procs |-> NoError]
    /\ result = [p \in Procs |-> "none"]
    /\ reqs = [p \in Procs |-> NoReqs]
    /\ opResult = [p \in Procs |-> NoResults]
    /\ delays = [p \in Procs |-> <<>>]
    /\ consecFailures = 0
    /\ sinceSuccess = FALSE
    /\ lastRecordedAt = 0
    /\ discarded = 0
    /\ guideStreak = NoStreak
    /\ hpc = "idle"
    /\ hreport = NoReport

\* the resolver before any call: no database connection yet
InitResolver ==
    /\ dbConnected = FALSE
    /\ storeUp = TRUE
    /\ mpc = [f \in Flows |-> "idle"]
    /\ guide = [f \in Flows |-> NoGuide]
    /\ found = [f \in Flows |-> NoMatch]
    /\ queried = [f \in Flows |-> <<>>]
    /\ updated = [f \in Flows |-> "none"]
    /\ shipped = {}

OneStore == [o \in OrderNumbers |->
                [phone_number |-> "573001234567", customer_name |-> "Ana Maria Torres",
                 shipping_address |-> "Calle 10 # 5-20, Bogota",
                 processing_status |-> "confirmed", tracking_number |-> NULL]]

Init ==
    /\ cfg \in Configs
    /\ InitSender
    /\ orders = OneStore
    /\ InitResolver
    /\ InitParser
    /\ InitRoute
    /\ InitWatcher

(* ------------------------------- actions ------------------------------- *)
\* Entering executeWithRetry for operation o: loop head at attempt 0 and, when
\* admitted, the gateway request is issued in the same synchronous run.
EnterOperation(p, o) ==
    LET r == loopHead(CB, now, cfg) IN
    /\ SetCB(r.cb)
    /\ attempt' = [attempt EXCEPT ![p] = 0]
    /\ caught' = [caught EXCEPT ![p] = NoError]
    /\ delays' = [delays EXCEPT ![p] = <<>>]
    /\ IF r.allowed
       THEN /\ pc' = [pc EXCEPT ![p] = "request"]
            /\ op' = [op EXCEPT ![p] = o]
            /\ reqs' = [reqs EXCEPT ![p][o] = @ + 1]
            /\ UNCHANGED <<result, opResult>>
       ELSE LET n == sendGuideNext(o, "blocked") IN
            /\ pc' = [pc EXCEPT ![p] = n.pc]
            /\ op' = [op EXCEPT ![p] = n.op]
            /\ result' = [result EXCEPT ![p] = n.result]
            /\ opResult' = [opResult EXCEPT ![p][o] = "blocked"]
            /\ UNCHANGED reqs
    /\ UNCHANGED <<cfg, outside, now, ghost, health>>

SendGuide(p) ==
    /\ pc[p] = "idle"
    /\ EnterOperation(p, "text")

StartMedia(p) ==
    /\ pc[p] = "start"
    /\ EnterOperation(p, op[p])

RequestSucceedsCall(p) ==
    /\ pc[p] = "request"
    /\ SetCB(recordSuccess(CB))
    /\ LET n == sendGuideNext(op[p], "ok") IN
        /\ pc' = [pc EXCEPT ![p] = n.pc]
        /\ op' = [op EXCEPT ![p] = n.op]
        /\ result' = [result EXCEPT ![p] = n.result]
    /\ opResult' = [opResult EXCEPT ![p][op[p]] = "ok"]
    /\ caught' = [caught EXCEPT ![p] = NoError]
    /\ consecFailures' = 0
    /\ sinceSuccess' = TRUE
    /\ discarded' = failureCount
    /\ UNCHANGED <<cfg, outside, now, attempt, reqs, delays, lastRecordedAt, health>>

RequestSucceeds(p) ==
    /\ RequestSucceedsCall(p)
    /\ UNCHANGED guideStreak

\* the same step, with the run of failed sendGuide calls kept up to date
CountedSuccess(p) ==
    /\ RequestSucceedsCall(p)
    /\ guideStreak' = IF op[p] = "media" THEN NoStreak ELSE guideStreak

RequestFailsCall(p, e) ==
    /\ pc[p] = "request"
    /\ caught' = [caught EXCEPT ![p] = e]
    /\ IF givesUp(isRetryableError(e), attempt[p], cfg)
       THEN LET n == sendGuideNext(op[p], "failed") IN
            /\ SetCB(recordFailure(CB, now, cfg))
            /\ consecFailures' = consecFailures + 1
            /\ lastRecordedAt' = now
            /\ UNCHANGED discarded
            /\ pc' = [pc EXCEPT ![p] = n.pc]
            /\ op' = [op EXCEPT ![p] = n.op]
            /\ result' = [result EXCEPT ![p] = n.result]
            /\ opResult' = [opResult EXCEPT ![p][op[p]] = "failed"]
            /\ UNCHANGED <<attempt, delays>>
       ELSE LET r == loopHead(CB, now, cfg) IN
            /\ SetCB(r.cb)
            /\ attempt' = [attempt EXCEPT ![p] = @ + 1]
            /\ UNCHANGED <<consecFailures, lastRecordedAt, discarded>>
            /\ IF r.allowed
               THEN /\ pc' = [pc EXCEPT ![p] = "sleep"]
                    /\ delays' = [delays EXCEPT
                                     ![p] = Append(@, retryDelay(attempt[p] + 1, cfg))]
                    /\ UNCHANGED <<op, result, opResult>>
               ELSE LET n == sendGuideNext(op[p], "blocked") IN
                    /\ pc' = [pc EXCEPT ![p] = n.pc]
                    /\ op' = [op EXCEPT ![p] = n.op]
                    /\ result' = [result EXCEPT ![p] = n.result]
                    /\ opResult' = [opResult EXCEPT ![p][op[p]] = "blocked"]
                    /\ UNCHANGED delays
    /\ UNCHANGED <<cfg, outside, now, reqs, sinceSuccess, health>>

RequestFails(p, e) ==
    /\ RequestFailsCall(p, e)
    /\ UNCHANGED guideStreak

\* the same step, with the run of failed sendGuide calls kept up to date
CountedFailure(p, e) ==
    /\ RequestFailsCall(p, e)
    /\ guideStreak' = IF givesUp(isRetryableError(e), attempt[p], cfg)
                      THEN streakAfter(guideStreak, op[p], cfg)
                      ELSE guideStreak

SleepDone(p) ==
    /\ pc[p] = "sleep"
    /\ pc' = [pc EXCEPT ![p] = "request"]
    /\ reqs' = [reqs EXCEPT ![p][op[p]] = @ + 1]
    /\ UNCHANGED <<cfg, outside, breaker, now, op, attempt, caught, result, opResult, delays,
                   ghost, health>>

\* the caller has received the boolean; the call's locals are gone
Return(p) ==
    /\ pc[p] = "done"
    /\ pc' = [pc EXCEPT ![p] = "idle"]
    /\ op' = [op EXCEPT ![p] = "text"]
    /\ attempt' = [attempt EXCEPT ![p] = 0]
    /\ caught' = [caught EXCEPT ![p] = NoError]
    /\ result' = [result EXCEPT ![p] = "none"]
    /\ reqs' = [reqs EXCEPT ![p] = NoReqs]
    /\ opResult' = [opResult EXCEPT ![p] = NoResults]
    /\ delays' = [delays EXCEPT ![p] = <<>>]
    /\ UNCHANGED <<cfg, outside, breaker, now, ghost, health>>

ResetCircuitBreakerCall ==
    /\ SetCB(resetCircuitBreaker(CB))
    /\ consecFailures' = 0
    /\ sinceSuccess' = FALSE
    /\ lastRecordedAt' = 0
    /\ discarded' = 0
    /\ UNCHANGED <<cfg, outside, now, calls, health>>

ResetCircuitBreaker ==
    /\ ResetCircuitBreakerCall
    /\ UNCHANGED guideStreak

\* the same step, with the run of failed sendGuide calls kept up to date
CountedReset ==
    /\ ResetCircuitBreakerCall
    /\ guideStreak' = NoStreak

Tick ==
    /\ now < MaxTime
    /\ now' = now + 1
    /\ UNCHANGED <<cfg, outside, breaker, calls, ghost, health>>

CheckHealth ==
    /\ hpc = "idle"
    /\ hpc' = "probing"
    /\ UNCHANGED <<cfg, outside, breaker, now, calls, ghost, hreport>>

ProbeDone(ok) ==
    /\ hpc = "probing"
    /\ LET r == checkHealthDone(CB, ok) IN
        /\ SetCB(r.cb)
        /\ hreport' = r.report
    /\ hpc' = "done"
    /\ UNCHANGED <<cfg, outside, now, calls, ghost>>

HealthReturn ==
    /\ hpc = "done"
    /\ hpc' = "idle"
    /\ hreport' = NoReport
    /\ UNCHANGED <<cfg, outside, breaker, now, calls, ghost>>

(* -------------------------- resolver actions --------------------------- *)
\* index.ts: the database connection is established and the matcher installed
SetMatcher ==
    /\ ~dbConnected
    /\ dbConnected' = TRUE
    /\ UNCHANGED <<cfg, offResolver, orders, storeUp, mpc, guide, found, queried, updated, shipped>>

\* the database becomes unreachable, or reachable again
StoreFlips ==
    /\ storeUp' = ~storeUp
    /\ UNCHANGED <<cfg, offResolver, orders, dbConnected, mpc, guide, found, queried, updated,
                   shipped>>

\* MatcherProxy.findCustomer and CustomerMatcher.findCustomer up to the first
\* await
FindCustomerCall(f, g) ==
    /\ guide' = [guide EXCEPT ![f] = g]
    /\ updated' = [updated EXCEPT ![f] = "none"]
    /\ IF ~dbConnected
       THEN /\ found' = [found EXCEPT ![f] = Thrown("Database not connected")]
            /\ mpc' = [mpc EXCEPT ![f] = "done"]
            /\ queried' = [queried EXCEPT ![f] = <<>>]
       ELSE LET t == nextTier(g, 1) IN
            IF t = "none"
            THEN /\ found' = [found EXCEPT ![f] = NullMatch]
                 /\ mpc' = [mpc EXCEPT ![f] = "done"]
                 /\ queried' = [queried EXCEPT ![f] = <<>>]
            ELSE /\ found' = [found EXCEPT ![f] = NoMatch]
                 /\ mpc' = [mpc EXCEPT ![f] = t]
                 /\ queried' = [queried EXCEPT ![f] = <<t>>]

FindCustomer(f, g) ==
    /\ mpc[f] = "idle"
    /\ FindCustomerCall(f, g)
    /\ UNCHANGED <<cfg, offResolver, orders, dbConnected, storeUp, shipped>>

\* the awaited query of the current tier settles: it rejects when the store
\* cannot be reached, else it resolves with the newest matching row or none
QuerySettles(f) ==
    /\ mpc[f] \in TierNames
    /\ IF ~storeUp
       THEN /\ found' = [found EXCEPT ![f] = queryRejected(mpc[f])]
            /\ mpc' = [mpc EXCEPT ![f] = "done"]
            /\ UNCHANGED queried
       ELSE LET row == matchBy(mpc[f], orders, guide[f])
                t == nextTier(guide[f], TierIndex(mpc[f]) + 1)
            IN  IF row # NULL
                THEN /\ found' = [found EXCEPT ![f] = Match(row, mpc[f])]
                     /\ mpc' = [mpc EXCEPT ![f] = "done"]
                     /\ UNCHANGED queried
                ELSE IF t = "none"
                THEN /\ found' = [found EXCEPT ![f] = NullMatch]
                     /\ mpc' = [mpc EXCEPT ![f] = "done"]
                     /\ UNCHANGED queried
                ELSE /\ mpc' = [mpc EXCEPT ![f] = t]
                     /\ queried' = [queried EXCEPT ![f] = Append(@, t)]
                     /\ UNCHANGED found
    /\ UNCHANGED <<cfg, offResolver, orders, dbConnected, storeUp, guide, updated, shipped>>

\* MatcherProxy.updateOrderTracking for the order findCustomer returned, with
\* the tracking number of the guide
UpdateCall(f) ==
    /\ IF ~dbConnected
       THEN /\ updated' = [updated EXCEPT ![f] = "Database not connected"]
            /\ UNCHANGED <<orders, shipped>>
       ELSE LET r == updateOrderTracking(orders, found[f].order, guide[f].trackingNumber,
                                         storeUp)
            IN  /\ orders' = r.store
                /\ updated' = [updated EXCEPT ![f] = r.returned]
                /\ shipped' = IF r.returned = "true" THEN shipped \cup {found[f].order}
                              ELSE shipped

UpdateOrderTracking(f) ==
    /\ mpc[f] = "done"
    /\ found[f].kind = "match"
    /\ updated[f] = "none"
    /\ UpdateCall(f)
    /\ UNCHANGED <<cfg, offResolver, dbConnected, storeUp, mpc, guide, found, queried>>

\* the caller is done with the result
ResolverReset(f) ==
    /\ mpc' = [mpc EXCEPT ![f] = "idle"]
    /\ guide' = [guide EXCEPT ![f] = NoGuide]
    /\ found' = [found EXCEPT ![f] = NoMatch]
    /\ queried' = [queried EXCEPT ![f] = <<>>]
    /\ updated' = [updated EXCEPT ![f] = "none"]

ResolverReturn(f) ==
    /\ mpc[f] = "done"
    /\ ResolverReset(f)
    /\ UNCHANGED <<cfg, offResolver, orders, dbConnected, storeUp, shipped>>

(* --------------------------- extractor actions ------------------------- *)
\* parse up to the await of parsePDF / parseImage; an unsupported extension
\* returns null at once
Parse(f, d) ==
    /\ ppc[f] = "idle"
    /\ doc' = [doc EXCEPT ![f] = d]
    /\ IF d.ext \in SupportedExtensions
       THEN /\ ppc' = [ppc EXCEPT ![f] = "reading"]
            /\ parsed' = [parsed EXCEPT ![f] = NotParsed]
       ELSE /\ ppc' = [ppc EXCEPT ![f] = "done"]
            /\ parsed' = [parsed EXCEPT ![f] = [kind |-> "null", record |-> NoRecord]]
    /\ extraction' = [extraction EXCEPT ![f] = NotExtracted]
    /\ UNCHANGED <<cfg, offParser>>

\* reading settles: with the text of the document, or with an error
ReadSettles(f, ok) ==
    /\ ppc[f] = "reading"
    /\ ppc' = [ppc EXCEPT ![f] = "done"]
    /\ extraction' = [extraction EXCEPT ![f] = extractionOf(doc[f].text, ok)]
    /\ parsed' = [parsed EXCEPT ![f] = parseDone(doc[f].text, ok)]
    /\ UNCHANGED <<cfg, offParser, doc>>

ParserReturn(f) ==
    /\ ppc[f] = "done"
    /\ ppc' = [ppc EXCEPT ![f] = "idle"]
    /\ doc' = [doc EXCEPT ![f] = NoDoc]
    /\ extraction' = [extraction EXCEPT ![f] = NotExtracted]
    /\ parsed' = [parsed EXCEPT ![f] = NotParsed]
    /\ UNCHANGED <<cfg, offParser>>

(* ----------------------------- route actions --------------------------- *)
\* The handler is done with the current file of flow f: the file is removed
\* (by the catch block when inCatch), the result w is kept, and the handler
\* responds, or goes on to parse the next file.
FileDone(f, w, outcome, inCatch) ==
    LET file == files[f][cur[f]]
        removed == IF inCatch \/ Len(files[f]) > 1 THEN unlinkIfExists(file)
                   ELSE unlinkSync(file)
    IN  /\ files' = [files EXCEPT ![f][cur[f]] = removed]
        /\ results' = [results EXCEPT ![f] = Append(@, [w EXCEPT !.result = outcome])]
        /\ work' = [work EXCEPT ![f] = NoWork]
        /\ IF Len(files[f]) = 1
           THEN /\ response' = [response EXCEPT ![f] = singleResponse(outcome)]
                /\ rpc' = [rpc EXCEPT ![f] = "responded"]
                /\ UNCHANGED cur
           ELSE IF cur[f] < Len(files[f])
           THEN /\ cur' = [cur EXCEPT ![f] = @ + 1]
                /\ rpc' = [rpc EXCEPT ![f] = "parse"]
                /\ UNCHANGED response
           ELSE /\ response' = [response EXCEPT ![f] = multiResponse]
                /\ rpc' = [rpc EXCEPT ![f] = "responded"]
                /\ UNCHANGED cur

\* lines 143-162, 196-201: a request with the files fs arrives; without a
\* file it is answered at once, else the first file is handed to the parser
RouteRequest(f, fs) ==
    /\ rpc[f] = "idle"
    /\ files' = [files EXCEPT ![f] = fs]
    /\ IF fs = <<>>
       THEN /\ response' = [response EXCEPT
                              ![f] = [status |-> 400, success |-> FALSE, body |-> "no file"]]
            /\ rpc' = [rpc EXCEPT ![f] = "responded"]
            /\ UNCHANGED cur
       ELSE /\ cur' = [cur EXCEPT ![f] = 1]
            /\ rpc' = [rpc EXCEPT ![f] = "parse"]
            /\ UNCHANGED response
    /\ UNCHANGED <<cfg, sender, watcher, resolver, parser, work, results>>

\* services.parser.parse has settled for the current file, the text having
\* been read (ok) or not: lines 162-168, 201-211 and the catch blocks
RouteParsed(f, ok) ==
    /\ rpc[f] = "parse"
    /\ LET file == files[f][cur[f]]
           r == parseOutcome(file, ok)
           w == [NoWork EXCEPT !.read = ok /\ file.ext \in SupportedExtensions,
                                !.parse = r.kind, !.record = r.record]
       IN  IF r.kind = "record"
           THEN /\ rpc' = [rpc EXCEPT ![f] = "match"]
                /\ work' = [work EXCEPT ![f] = [w EXCEPT !.called = {"matcher"}]]
                /\ FindCustomerCall(f, ToGuide(r.record))
                /\ UNCHANGED <<files, cur, results, response>>
           ELSE /\ IF r.kind = "null"
                   THEN FileDone(f, w, "not a guide", FALSE)
                   ELSE FileDone(f, w, catchOutcome(r.kind), TRUE)
                /\ UNCHANGED <<mpc, guide, found, queried, updated>>
    /\ UNCHANGED <<cfg, sender, watcher, parser, orders, dbConnected, storeUp, shipped>>

\* services.matcher.findCustomer has settled: lines 168-174, 211-222 and the
\* catch blocks
RouteMatched(f) ==
    /\ rpc[f] = "match"
    /\ mpc[f] = "done"
    /\ IF found[f].kind = "match"
       THEN /\ rpc' = [rpc EXCEPT ![f] = "send"]
            /\ work' = [work EXCEPT ![f].called = @ \cup {"sender"},
                                    ![f].match = found[f].order]
            /\ UNCHANGED <<files, cur, results, response>>
       ELSE IF found[f].kind = "null"
       THEN FileDone(f, work[f], "no customer", FALSE)
       ELSE FileDone(f, work[f], catchOutcome(found[f].kind), TRUE)
    /\ UNCHANGED <<cfg, sender, watcher, resolver, parser>>

\* services.sender.sendGuide has returned sent: lines 174-182, 222-248
RouteSent(f, sent) ==
    /\ rpc[f] = "send"
    /\ LET w == [work[f] EXCEPT !.sent = IF sent THEN "true" ELSE "false"]
       IN  IF afterSend(sent) = "update"
           THEN /\ rpc' = [rpc EXCEPT ![f] = "update"]
                /\ work' = [work EXCEPT
                              ![f] = [w EXCEPT !.called = @ \cup {"update"},
                                               !.update = updateArgs(found[f], w.record)]]
                /\ UNCHANGED <<files, cur, results, response>>
           ELSE FileDone(f, w, afterSend(sent), FALSE)
    /\ UNCHANGED <<cfg, sender, watcher, resolver, parser>>

\* services.matcher.updateOrderTracking has settled: lines 176-178, 225-240
\* and the catch blocks; what it returned is not looked at
RouteUpdated(f) ==
    /\ rpc[f] = "update"
    /\ UpdateCall(f)
    /\ IF updated'[f] \in ThrownKinds
       THEN FileDone(f, work[f], catchOutcome(updated'[f]), TRUE)
       ELSE FileDone(f, work[f], "sent", FALSE)
    /\ UNCHANGED <<cfg, sender, watcher, parser, dbConnected, storeUp, mpc, guide, found, queried>>

\* the response has been sent; the request is over
RouteReturn(f) ==
    /\ rpc[f] = "responded"
    /\ rpc' = [rpc EXCEPT ![f] = "idle"]
    /\ files' = [files EXCEPT ![f] = <<>>]
    /\ cur' = [cur EXCEPT ![f] = 0]
    /\ work' = [work EXCEPT ![f] = NoWork]
    /\ results' = [results EXCEPT ![f] = <<>>]
    /\ response' = [response EXCEPT ![f] = NoResponse]
    /\ ResolverReset(f)
    /\ UNCHANGED <<cfg, sender, watcher, parser, orders, dbConnected, storeUp, shipped>>

(* ------------------------ folder-watch entry point --------------------- *)
\* processGuide returns for its file: by a return statement, by the end of
\* the try block, or by the catch block, which only logs.  The file is left
\* where it is.
GuideDone(f, w, outcome) ==
    /\ results' = [results EXCEPT ![f] = Append(@, [w EXCEPT !.result = outcome])]
    /\ work' = [work EXCEPT ![f] = NoWork]
    /\ rpc' = [rpc EXCEPT ![f] = "returned"]
    /\ UNCHANGED <<files, cur, response>>

\* lines 60-65 of index.ts: processGuide is called with a file of the watch
\* folder and hands it to the parser
ProcessGuide(f, file) ==
    /\ rpc[f] = "idle"
    /\ files' = [files EXCEPT ![f] = <<file>>]
    /\ cur' = [cur EXCEPT ![f] = 1]
    /\ rpc' = [rpc EXCEPT ![f] = "parse"]
    /\ UNCHANGED <<cfg, sender, watcher, resolver, parser, work, results, response>>

\* lines 65-74: this.parser.parse has settled
GuideParsed(f, ok) ==
    /\ rpc[f] = "parse"
    /\ LET file == files[f][cur[f]]
           r == parseOutcome(file, ok)
           w == [NoWork EXCEPT !.read = ok /\ file.ext \in SupportedExtensions,
                                !.parse = r.kind, !.record = r.record]
       IN  IF r.kind = "record"
           THEN /\ rpc' = [rpc EXCEPT ![f] = "match"]
                /\ work' = [work EXCEPT ![f] = [w EXCEPT !.called = {"matcher"}]]
                /\ FindCustomerCall(f, ToGuide(r.record))
                /\ UNCHANGED <<files, cur, results, response>>
           ELSE /\ GuideDone(f, w, IF r.kind = "null" THEN "not a guide"
                                    ELSE catchOutcome(r.kind))
                /\ UNCHANGED <<mpc, guide, found, queried, updated>>
    /\ UNCHANGED <<cfg, sender, watcher, parser, orders, dbConnected, storeUp, shipped>>

\* lines 74-83: this.matcherProxy.findCustomer has settled
GuideMatched(f) ==
    /\ rpc[f] = "match"
    /\ mpc[f] = "done"
    /\ IF found[f].kind = "match"
       THEN /\ rpc' = [rpc EXCEPT ![f] = "send"]
            /\ work' = [work EXCEPT ![f].called = @ \cup {"sender"},
                                    ![f].match = found[f].order]
            /\ UNCHANGED <<files, cur, results, response>>
       ELSE GuideDone(f, work[f], IF found[f].kind = "null" THEN "no customer"
                                  ELSE catchOutcome(found[f].kind))
    /\ UNCHANGED <<cfg, sender, watcher, resolver, parser>>

\* lines 85-91: this.sender.sendGuide has returned sent
GuideSent(f, sent) ==
    /\ rpc[f] = "send"
    /\ LET w == [work[f] EXCEPT !.sent = IF sent THEN "true" ELSE "false"]
       IN  IF afterSend(sent) = "update"
           THEN /\ rpc' = [rpc EXCEPT ![f] = "update"]
                /\ work' = [work EXCEPT
                              ![f] = [w EXCEPT !.called = @ \cup {"update"},
                                               !.update = updateArgs(found[f], w.record)]]
                /\ UNCHANGED <<files, cur, results, response>>
           ELSE GuideDone(f, w, afterSend(sent))
    /\ UNCHANGED <<cfg, sender, watcher, resolver, parser>>

\* lines 88, 105-111: this.updateOrderTracking has settled
GuideUpdated(f) ==
    /\ rpc[f] = "update"
    /\ UpdateCall(f)
    /\ GuideDone(f, work[f], IF updated'[f] \in ThrownKinds THEN catchOutcome(updated'[f])
                             ELSE "sent")
    /\ UNCHANGED <<cfg, sender, watcher, parser, dbConnected, storeUp, mpc, guide, found, queried>>

\* the caller of processGuide goes on
GuideReturn(f) ==
    /\ rpc[f] = "returned"
    /\ rpc' = [rpc EXCEPT ![f] = "idle"]
    /\ files' = [files EXCEPT ![f] = <<>>]
    /\ cur' = [cur EXCEPT ![f] = 0]
    /\ work' = [work EXCEPT ![f] = NoWork]
    /\ results' = [results EXCEPT ![f] = <<>>]
    /\ ResolverReset(f)
    /\ UNCHANGED <<cfg, sender, watcher, parser, orders, dbConnected, storeUp, shipped, response>>

(* ---------------------------- watcher actions -------------------------- *)
\* a document named n is written into the watch folder; the underlying
\* watcher reports it unless it is hidden
Drop(n) ==
    /\ invocations[n] = 0
    /\ \A path \in Paths : path.name = n => path \notin folder
    /\ LET path == [dir |-> "watch", name |-> n]
       IN  /\ folder' = folder \cup {path}
           /\ addEvents' = IF ignored(path) THEN addEvents ELSE addEvents \cup {path}
    /\ UNCHANGED <<cfg, offWatcher, processedFiles, wpc, invocations>>

\* lines 33-36: the 'add' handler runs for path up to the await of onFile
OnAdd(path) ==
    /\ path \in addEvents
    /\ addEvents' = addEvents \ {path}
    /\ IF isValidFile(path) /\ ~alreadyProcessed(processedFiles, path)
       THEN /\ processedFiles' = processedFiles \cup {path}
            /\ wpc' = [wpc EXCEPT ![path] = "callback"]
            /\ invocations' = [invocations EXCEPT ![basename(path)] = @ + 1]
       ELSE UNCHANGED <<processedFiles, wpc, invocations>>
    /\ UNCHANGED <<cfg, offWatcher, folder>>

\* lines 36-39: onFile has completed and the file is moved; the underlying
\* watcher reports the path it is moved to when that path is new
CallbackDone(path) ==
    /\ wpc[path] = "callback"
    /\ wpc' = [wpc EXCEPT ![path] = "moved"]
    /\ LET newPath == processedPath(path)
       IN  /\ folder' = (folder \ {path}) \cup {newPath}
           /\ addEvents' = IF newPath \notin folder /\ ~ignored(newPath)
                           THEN addEvents \cup {newPath}
                           ELSE addEvents
    /\ UNCHANGED <<cfg, offWatcher, processedFiles, invocations>>

(* --------------------------- specifications ---------------------------- *)
OthersIdle(p) == \A q \in Procs \ {p} : pc[q] = "idle"

\* send operations executed one at a time, on a sender that can be reset at
\* any moment, while time passes
Next ==
    \/ \E p \in Procs : OthersIdle(p) /\ SendGuide(p)
    \/ \E p \in Procs : StartMedia(p)
    \/ \E p \in Procs : RequestSucceeds(p)
    \/ \E p \in Procs : \E e \in GatewayErrors : RequestFails(p, e)
    \/ \E p \in Procs : SleepDone(p)
    \/ \E p \in Procs : Return(p)
    \/ ResetCircuitBreaker
    \/ Tick

Spec == Init /\ [][Next]_vars

\* sendGuide calls made one after the other, the run of calls that a gateway
\* failure ended being counted
NextCalls ==
    \/ \E p \in Procs : OthersIdle(p) /\ SendGuide(p)
    \/ \E p \in Procs : StartMedia(p)
    \/ \E p \in Procs : CountedSuccess(p)
    \/ \E p \in Procs : \E e \in GatewayErrors : CountedFailure(p, e)
    \/ \E p \in Procs : SleepDone(p)
    \/ \E p \in Procs : Return(p)
    \/ CountedReset
    \/ Tick

SpecCalls == Init /\ [][NextCalls]_vars

\* errors of the two kinds the retry loop tells apart
BackoffErrors == {Err(TRUE, "ETIMEDOUT", FALSE, 0, FALSE), Err(TRUE, "other", TRUE, 400, TRUE)}

\* two callers of the shared sender
Racers == {p \in Procs : p <= 2}

\* configurations with one retry
RacingConfigs == {c \in Configs : c.maxRetries = 1}

InitConcurrent ==
    /\ cfg \in RacingConfigs
    /\ InitSender
    /\ orders = OneStore
    /\ InitResolver
    /\ InitParser
    /\ InitRoute
    /\ InitWatcher

\* sendGuide calls running side by side on one sender, interleaved at their
\* awaits, with resets
NextRacing ==
    \/ \E p \in Racers : SendGuide(p)
    \/ \E p \in Racers : StartMedia(p)
    \/ \E p \in Racers : RequestSucceeds(p)
    \/ \E p \in Racers : \E e \in BackoffErrors : RequestFails(p, e)
    \/ \E p \in Racers : SleepDone(p)
    \/ \E p \in Racers : Return(p)
    \/ ResetCircuitBreaker
    \/ Tick

\* the same, with health probes running alongside (the report is built and
\* returned in one synchronous run)
NextConcurrent ==
    \/ hpc # "done" /\ NextRacing
    \/ CheckHealth
    \/ \E ok \in BOOLEAN : ProbeDone(ok)
    \/ HealthReturn

SpecConcurrent == InitConcurrent /\ [][NextConcurrent]_vars

\* the gateway request of caller p resolves or rejects
Settles(p) == RequestSucceeds(p) \/ \E e \in BackoffErrors : RequestFails(p, e)

\* Every pending gateway request settles, every backoff sleep ends, and the
\* continuation of sendGuide after the text operation runs (lines 213, 216, 373).
\* Nothing obliges a caller to start a call or to pick up its result.
Progress ==
    \A p \in Racers :
        /\ WF_vars(Settles(p))
        /\ WF_vars(SleepDone(p))
        /\ WF_vars(StartMedia(p))

\* sendGuide calls made one after the other on a sender of any configuration,
\* with resets, while time passes
NextCalling ==
    \/ \E p \in Racers : OthersIdle(p) /\ SendGuide(p)
    \/ \E p \in Racers : StartMedia(p)
    \/ \E p \in Racers : Settles(p)
    \/ \E p \in Racers : SleepDone(p)
    \/ \E p \in Racers : Return(p)
    \/ ResetCircuitBreaker
    \/ Tick

SpecTermination == Init /\ [][NextCalling]_vars /\ Progress

\* successive sendGuide calls with health probes running alongside.  The
\* report is built and returned in one synchronous run (lines 329-334,
\* 346-351), so nothing else happens between ProbeDone and HealthReturn.
NextHealth ==
    \/ hpc # "done" /\ NextCalling
    \/ CheckHealth
    \/ \E ok \in BOOLEAN : ProbeDone(ok)
    \/ HealthReturn

SpecHealth == Init /\ [][NextHealth]_vars

InitBackoff ==
    /\ cfg \in BackoffConfigs
    /\ InitSender
    /\ orders = OneStore
    /\ InitResolver
    /\ InitParser
    /\ InitRoute
    /\ InitWatcher

\* send operations of one sender under every retry configuration
NextBackoff ==
    \/ \E p \in Procs : OthersIdle(p) /\ SendGuide(p)
    \/ \E p \in Procs : StartMedia(p)
    \/ \E p \in Procs : RequestSucceeds(p)
    \/ \E p \in Procs : \E e \in BackoffErrors : RequestFails(p, e)
    \/ \E p \in Procs : SleepDone(p)
    \/ \E p \in Procs : Return(p)

SpecBackoff == InitBackoff /\ [][NextBackoff]_vars

DefaultConfig == [failureThreshold |-> MaxThreshold, resetTimeoutMs |-> ResetTimeout,
                  maxRetries |-> MaxRetriesBound,
                  initialDelayMs |-> DefaultInitialDelayMs,
                  maxDelayMs |-> DefaultMaxDelayMs,
                  backoffMultiplier |-> DefaultBackoffMultiplier]

InitMatcher ==
    /\ cfg = DefaultConfig
    /\ InitSender
    /\ orders \in [OrderNumbers -> Rows]
    /\ InitResolver
    /\ InitParser
    /\ InitRoute
    /\ InitWatcher

FlowsIdle(f) == \A h \in Flows \ {f} : mpc[h] = "idle"

\* documents resolved one at a time against every content of the orders
\* table, while the database connection comes and goes
NextMatcher ==
    \/ SetMatcher
    \/ StoreFlips
    \/ \E f \in Flows :
        /\ FlowsIdle(f) /\ mpc[f] = "idle"
        /\ \E g \in Guides : FindCustomer(f, g)
    \/ \E f \in Flows : QuerySettles(f)
    \/ \E f \in Flows : UpdateOrderTracking(f)
    \/ \E f \in Flows : ResolverReturn(f)

SpecMatcher == InitMatcher /\ [][NextMatcher]_vars

\* files handed to parse: a PDF, an image, and a file of another type
Extensions == {".pdf", ".png", ".txt"}

InitExtractor ==
    /\ cfg = DefaultConfig
    /\ InitSender
    /\ orders = OneStore
    /\ InitResolver
    /\ InitParser
    /\ InitRoute
    /\ InitWatcher

ParsersIdle(f) == \A h \in Flows \ {f} : ppc[h] = "idle"

\* documents parsed one at a time, over every text
NextExtractor ==
    \/ \E f \in Flows :
        /\ ParsersIdle(f) /\ ppc[f] = "idle"
        /\ \E e \in Extensions : \E t \in Features :
                IsText(t) /\ Parse(f, [ext |-> e, text |-> t])
    \/ \E f \in Flows : \E ok \in BOOLEAN : ReadSettles(f, ok)
    \/ \E f \in Flows : ParserReturn(f)

SpecExtractor == InitExtractor /\ [][NextExtractor]_vars

\* requests of up to MaxFiles documents
Uploads == {Stored(e, t) : e \in StoredExtensions, t \in RouteTexts}
Requests == UNION {[1..n -> Uploads] : n \in 0..MaxFiles}

InitUpload ==
    /\ cfg = DefaultConfig
    /\ InitSender
    /\ orders = OneStore
    /\ InitResolver
    /\ InitParser
    /\ InitRoute
    /\ InitWatcher

\* upload requests handled one at a time, while the database connection is
\* established, lost and found again
NextUpload ==
    \/ SetMatcher
    \/ StoreFlips
    \/ /\ rpc["upload"] = "idle"
       /\ \E fs \in Requests : RouteRequest("upload", fs)
    \/ \E ok \in BOOLEAN : RouteParsed("upload", ok)
    \/ QuerySettles("upload")
    \/ RouteMatched("upload")
    \/ \E sent \in BOOLEAN : RouteSent("upload", sent)
    \/ RouteUpdated("upload")
    \/ RouteReturn("upload")

SpecUpload == InitUpload /\ [][NextUpload]_vars

\* files the folder watcher hands to processGuide
WatchExtensions == {".pdf", ".png"}
Dropped == {Stored(e, t) : e \in WatchExtensions, t \in RouteTexts}

\* an upload of one document and a document of the watch folder, processed
\* side by side
NextFlows ==
    \/ SetMatcher
    \/ StoreFlips
    \/ /\ rpc["upload"] = "idle"
       /\ \E u \in Uploads : RouteRequest("upload", <<u>>)
    \/ \E ok \in BOOLEAN : RouteParsed("upload", ok)
    \/ RouteMatched("upload")
    \/ \E sent \in BOOLEAN : RouteSent("upload", sent)
    \/ RouteUpdated("upload")
    \/ RouteReturn("upload")
    \/ /\ rpc["watch"] = "idle"
       /\ \E d \in Dropped : ProcessGuide("watch", d)
    \/ \E ok \in BOOLEAN : GuideParsed("watch", ok)
    \/ GuideMatched("watch")
    \/ \E sent \in BOOLEAN : GuideSent("watch", sent)
    \/ GuideUpdated("watch")
    \/ GuideReturn("watch")
    \/ \E f \in Flows : QuerySettles(f)

SpecFlows == InitUpload /\ [][NextFlows]_vars

\* documents dropped into the watch folder while the watcher runs
NextWatcher ==
    \/ \E n \in FileNames : Drop(n)
    \/ \E path \in Paths : OnAdd(path)
    \/ \E path \in Paths : CallbackDone(path)

SpecWatcher == InitUpload /\ [][NextWatcher]_vars

(* ------------------------- vocabulary of the claims -------------------- *)
Threshold == cfg.failureThreshold

\* a network-level fault or an HTTP 5xx, 429 or 408 response
IsTransient(e) ==
    \/ e.message \in NetCodes
    \/ e.isAxiosError /\ ~e.hasResponse
    \/ e.hasResponse /\ (e.status \in 500..599 \/ e.status \in {429, 408})

\* any other 4xx response
IsOtherClientError(e) ==
    e.hasResponse /\ e.status \in 400..499 /\ e.status \notin {429, 408}

\* steps of caller p, recognised by what they do to its position
CallStep(p) == pc[p] = "idle" /\ pc'[p] # "idle"
FailStep(p) == pc[p] = "request" /\ pc'[p] # "request" /\ caught'[p] # NoError
SuccessStep(p) == pc[p] = "request" /\ opResult'[p][op[p]] = "ok"
RejectStep(p) ==
    \E o \in {"text", "media"} : opResult[p][o] # "blocked" /\ opResult'[p][o] = "blocked"
ResetStep ==
    /\ circuitState' = "CLOSED" /\ failureCount' = 0 /\ lastFailureTime' = 0
    /\ UNCHANGED calls

(* -------------------------------- claims ------------------------------- *)
\* C1: from a fresh sender (no success since construction or reset), the
\* circuit is CLOSED while fewer than failureThreshold failures have been
\* recorded, and the step that records the failureThreshold-th one takes it
\* from CLOSED to OPEN.
C1_OpensAtThreshold ==
    /\ [](~sinceSuccess /\ consecFailures < Threshold => circuitState = "CLOSED")
    /\ [][(~sinceSuccess /\ consecFailures' = Threshold /\ consecFailures = Threshold - 1)
            => (circuitState = "CLOSED" /\ circuitState' = "OPEN")]_vars

C1_Witness ==
    /\ ~sinceSuccess
    /\ Threshold >= 2
    /\ consecFailures = Threshold
    /\ circuitState = "OPEN"

\* C2: a sendGuide call made while the circuit is OPEN and less than
\* resetTimeoutMs has elapsed since lastFailureTime issues no gateway request,
\* returns false and leaves circuitState, failureCount and lastFailureTime
\* as they were.
C2_OpenRejects ==
    [][\A p \in Procs :
        (CallStep(p) /\ circuitState = "OPEN" /\ now - lastFailureTime < cfg.resetTimeoutMs)
            => /\ pc'[p] = "done"
               /\ result'[p] = "false"
               /\ reqs'[p] = NoReqs
               /\ UNCHANGED breaker]_vars

C2_Witness ==
    \E p \in Procs :
        /\ pc[p] = "done"
        /\ opResult[p].text = "blocked"
        /\ reqs[p] = NoReqs
        /\ circuitState = "OPEN"
        /\ now - lastFailureTime < cfg.resetTimeoutMs

\* C3: the circuit leaves HALF_OPEN as soon as one gateway request issued in
\* HALF_OPEN completes, whatever maxRetries and the kind of failure.
C3_SingleTrial ==
    [][\A p \in Procs :
        (circuitState = "HALF_OPEN" /\ pc[p] = "request" /\ pc'[p] # "request")
            => circuitState' # "HALF_OPEN"]_vars

\* C4: the media operation runs only after the text operation succeeded;
\* sendGuide returns true exactly when both operations succeeded, and returns
\* false (it does not throw) when an operation failed or was rejected.
C4_TextThenMedia ==
    \A p \in Procs :
        /\ (reqs[p].media > 0 \/ opResult[p].media # "none") => opResult[p].text = "ok"
        /\ pc[p] = "done" =>
            /\ result[p] \in {"true", "false"}
            /\ result[p] = "true" <=> (opResult[p].text = "ok" /\ opResult[p].media = "ok")
            /\ (\E o \in {"text", "media"} : opResult[p][o] \in {"failed", "blocked"})
                    => result[p] = "false"

C4_Witness ==
    \E p \in Procs :
        /\ pc[p] = "done"
        /\ opResult[p].text = "ok"
        /\ opResult[p].media = "failed"
        /\ result[p] = "false"

\* C5: an admitted operation whose gateway requests all fail with a retryable
\* error issues exactly maxRetries + 1 requests and sendGuide returns false;
\* the failure counter grows by exactly 1, at the last failure, and is left
\* alone by the failures that are retried.
C5_ExhaustedRetries ==
    /\ [](\A p \in Procs :
            (pc[p] = "done" /\ opResult[p][op[p]] = "failed" /\ IsTransient(caught[p]))
                => /\ reqs[p][op[p]] = cfg.maxRetries + 1
                   /\ result[p] = "false")
    /\ [][\A p \in Procs :
            (FailStep(p) /\ IsTransient(caught'[p]))
                => IF pc'[p] = "done"
                   THEN failureCount' = failureCount + 1
                   ELSE failureCount' = failureCount]_vars

C5_Witness ==
    \E p \in Procs :
        /\ pc[p] = "done"
        /\ cfg.maxRetries = MaxRetriesBound
        /\ opResult[p].text = "failed"
        /\ IsTransient(caught[p])
        /\ reqs[p].text = MaxRetriesBound + 1
        /\ failureCount = 1

C7_RejectionCounted ==
    [][\A p \in Procs :
        RejectStep(p) => (failureCount' = failureCount + 1 /\ result'[p] = "false")]_vars

\* C7 (amended): a send operation rejected by the circuit breaker is not
\* counted as a failure: the failure counter and the streak of recorded
\* failures stay as they were, and sendGuide returns false.
C7_RejectionNotCounted ==
    [][\A p \in Procs :
        RejectStep(p)
            => /\ failureCount' = failureCount
               /\ consecFailures' = consecFailures
               /\ result'[p] = "false"]_vars

C7_Witness ==
    \E p \in Procs :
        /\ pc[p] = "done"
        /\ opResult[p].text = "blocked"
        /\ result[p] = "false"
        /\ failureCount = Threshold

\* C8: a gateway operation that succeeds leaves failureCount = 0 and the
\* circuit CLOSED, from HALF_OPEN as from CLOSED; after a success the circuit
\* stays CLOSED until failureThreshold new failures have been recorded, and
\* the failureThreshold-th of them opens it.
C8_SuccessResets ==
    /\ [][\A p \in Procs :
            SuccessStep(p) => (failureCount' = 0 /\ circuitState' = "CLOSED")]_vars
    /\ [](sinceSuccess /\ consecFailures < Threshold => circuitState = "CLOSED")
    /\ [](sinceSuccess /\ consecFailures = 0 => failureCount = 0)
    /\ [][(sinceSuccess /\ consecFailures' = Threshold /\ consecFailures = Threshold - 1)
            => (circuitState = "CLOSED" /\ circuitState' = "OPEN")]_vars

C8_Witness ==
    /\ sinceSuccess
    /\ discarded >= 1
    /\ discarded < Threshold
    /\ consecFailures = Threshold
    /\ failureCount = Threshold
    /\ circuitState = "OPEN"

\* C9: the circuit leaves OPEN only to HALF_OPEN, in a step where a send is
\* attempted at least resetTimeoutMs after the most recent recorded failure,
\* or by resetCircuitBreaker; a step in which time passes changes nothing of
\* the breaker; and a send attempted while OPEN less than resetTimeoutMs
\* after the most recent recorded failure (a failed HALF_OPEN trial included)
\* is rejected without a gateway request.
C9_LazyHalfOpen ==
    [][/\ (circuitState = "OPEN" /\ circuitState' # "OPEN")
            => \/ /\ circuitState' = "HALF_OPEN"
                  /\ now - lastRecordedAt >= cfg.resetTimeoutMs
                  /\ \E p \in Procs : CallStep(p) /\ pc'[p] = "request"
               \/ ResetStep
       /\ now' # now => UNCHANGED breaker
       /\ \A p \in Procs :
            (CallStep(p) /\ circuitState = "OPEN" /\ now - lastRecordedAt < cfg.resetTimeoutMs)
                => /\ opResult'[p].text = "blocked"
                   /\ reqs'[p] = NoReqs
                   /\ circuitState' = "OPEN"]_vars

C9_Witness ==
    \E p \in Procs :
        /\ pc[p] = "done"
        /\ opResult[p].text = "blocked"
        /\ circuitState = "OPEN"
        /\ failureCount > Threshold
        /\ now > lastRecordedAt

\* C10: checkHealth leaves circuitState, failureCount and lastFailureTime
\* alone whether the probe succeeds or fails; the state it reports is the
\* current circuit state; it returns a report and does not throw.
C10_HealthReadOnly ==
    /\ [][hpc' # hpc => UNCHANGED breaker]_vars
    /\ [](hpc = "done" => (hreport.circuitState = circuitState /\ ~hreport.threw))

C10_Witness ==
    /\ hpc = "done"
    /\ hreport.healthy
    /\ hreport.circuitState = "OPEN"
    /\ circuitState = "OPEN"

\* the closed form the delay before retry n is said to have
BackoffFormula(n, c) ==
    LET grown == c.initialDelayMs * Pow(c.backoffMultiplier, n - 1)
    IN  IF grown < c.maxDelayMs THEN grown ELSE c.maxDelayMs

\* the delays documented for the default configuration
BackoffTable(n) ==
    IF n = 1 THEN 1000 ELSE IF n = 2 THEN 2000 ELSE IF n = 3 THEN 4000
    ELSE IF n = 4 THEN 8000 ELSE 10000

IsDefaultBackoff(c) ==
    /\ c.initialDelayMs = 1000 /\ c.maxDelayMs = 10000 /\ c.backoffMultiplier = 2

\* what holds of the delays under every retry configuration
BackoffShape(p) ==
    /\ pc[p] \in {"sleep", "request"} => Len(delays[p]) = attempt[p]
    /\ \A n \in 1..Len(delays[p]) :
        /\ delays[p][n] = BackoffFormula(n, cfg)
        /\ delays[p][n] <= cfg.maxDelayMs
        /\ IsDefaultBackoff(cfg) => delays[p][n] = BackoffTable(n)

NonDecreasing(d) == \A i, j \in 1..Len(d) : i <= j => d[i] <= d[j]

\* C11 as stated: the delay slept before retry n is
\* min(initialDelayMs * backoffMultiplier^(n-1), maxDelayMs), is non-decreasing
\* in n, never exceeds maxDelayMs, follows the documented table under the
\* default configuration, and no delay precedes the first request.
C11_BackoffAsStated ==
    \A p \in Procs : BackoffShape(p) /\ NonDecreasing(delays[p])

\* C11, amended: the same, the delays being non-decreasing when
\* backoffMultiplier >= 1 and initialDelayMs >= 0.
C11_Backoff ==
    \A p \in Procs :
        /\ BackoffShape(p)
        /\ (cfg.backoffMultiplier >= 1 /\ cfg.initialDelayMs >= 0) => NonDecreasing(delays[p])

\* the sixth retry of an operation under the default configuration sleeps
\* the capped delay
C11_Witness ==
    \E p \in Procs :
        /\ IsDefaultBackoff(cfg)
        /\ pc[p] = "sleep"
        /\ attempt[p] = 6
        /\ delays[p] = <<1000, 2000, 4000, 8000, 10000, 10000>>

\* findCustomer of flow f settles in this step (resolves or throws)
SettleStep(f) == mpc[f] # "done" /\ mpc'[f] = "done"

Priority(tier) == CASE tier = "phone" -> 1 [] tier = "name" -> 2 [] tier = "address" -> 3

QueriedSet(q) == {q[i] : i \in 1..Len(q)}

\* tier t returned no row to the call of guide g
NoRow(t, g) == matchBy(t, orders, g) = NULL

\* the tier queries q of a call with guide g respect the priority order
TiersInOrder(q, g) ==
    /\ \A i, j \in 1..Len(q) : i < j => Priority(q[i]) < Priority(q[j])
    /\ \A t \in QueriedSet(q) :
        /\ TierField(g, t) # ""
        /\ \A h \in TierNames :
            Priority(h) < Priority(t) =>
                \/ TierField(g, h) = "" /\ h \notin QueriedSet(q)
                \/ h \in QueriedSet(q) /\ NoRow(h, g)

\* the value r is the hit of the last tier queried
FirstHit(r, q, g) ==
    /\ q # <<>>
    /\ r.matchedBy = q[Len(q)]
    /\ r.order = matchBy(r.matchedBy, orders, g)
    /\ r.order # NULL
    /\ <<r.matchedBy, r.confidence>> \in {<<"phone", 100>>, <<"name", 80>>, <<"address", 60>>}

PhoneCandidate(g) ==
    \E o \in OrderNumbers :
        IsEligible(orders[o]) /\ Like(orders[o].phone_number, sanitizePhone(g.customerPhone))

NameCandidate(g) ==
    \E o \in OrderNumbers :
        /\ IsEligible(orders[o])
        /\ Like(Lower(orders[o].customer_name), firstNamePart(Lower(g.customerName)))
        /\ g.city # "" => Like(Lower(orders[o].shipping_address), Lower(g.city))

\* C12: findCustomer queries the tiers in the order phone, name, address, a
\* tier only if its field is present and every higher tier was skipped or
\* returned no row; the result is the hit of the first tier that returns a
\* row, with (phone,100), (name,80) or (address,60); nothing is queried after
\* a hit; null is returned exactly when no queried tier returns a row; when a
\* phone-matching and a name-matching eligible order exist and the record has
\* phone and name, the phone match with confidence 100 is returned.
C12_TierPriority ==
    [][\A f \in Flows :
        /\ SettleStep(f) =>
            /\ TiersInOrder(queried'[f], guide'[f])
            /\ found'[f].kind = "match" => FirstHit(found'[f], queried'[f], guide'[f])
            /\ found'[f].kind \in {"match", "null"} =>
                /\ \A t \in TierNames \ QueriedSet(queried'[f]) :
                    TierField(guide'[f], t) = "" \/ found'[f].kind = "match"
                /\ found'[f].kind = "null" <=>
                    \A t \in QueriedSet(queried'[f]) : NoRow(t, guide'[f])
                /\ (/\ guide'[f].customerPhone # "" /\ guide'[f].customerName # ""
                    /\ PhoneCandidate(guide'[f]) /\ NameCandidate(guide'[f])) =>
                        (found'[f].matchedBy = "phone" /\ found'[f].confidence = 100)
        /\ (mpc[f] = "done" /\ mpc'[f] = "done") => queried'[f] = queried[f]]_vars

\* a record with phone and name, a newer order matching the phone and an older
\* one matching only the name: the phone match is returned after one query
C12_Witness ==
    \E f \in Flows :
        /\ mpc[f] = "done"
        /\ guide[f].customerPhone # "" /\ guide[f].customerName # ""
        /\ found[f] = Match("ORD-2", "phone")
        /\ queried[f] = <<"phone">>
        /\ updated[f] = "none"
        /\ IsEligible(orders["ORD-1"])
        /\ orders["ORD-1"].customer_name = "Ana Maria Torres"
        /\ orders["ORD-1"].phone_number = "573009998877"
        /\ orders["ORD-1"].shipping_address = "Calle 10 # 5-20, Bogota"

\* C13: in every tier findCustomer only returns an order whose processing
\* status is confirmed or processing and whose tracking number is null; an
\* order for which updateOrderTracking returned true keeps a tracking number
\* and is returned by no later findCustomer call.
C13_OnlyEligible ==
    /\ [][\A f \in Flows :
            (SettleStep(f) /\ found'[f].kind = "match") =>
                /\ orders[found'[f].order].processing_status \in {"confirmed", "processing"}
                /\ orders[found'[f].order].tracking_number = NULL
                /\ found'[f].order \notin shipped]_vars
    /\ [](\A o \in shipped : orders[o].tracking_number # NULL)

\* a later call whose phone is the one of a shipped order, with no other
\* field to match on, resolves to null
C13_Witness ==
    \E f \in Flows : \E o \in shipped :
        /\ mpc[f] = "done"
        /\ found[f].kind = "null"
        /\ queried[f] = <<"phone">>
        /\ orders[o].processing_status = "processing"
        /\ Like(orders[o].phone_number, sanitizePhone(guide[f].customerPhone))

\* the query flow f awaits settles in this step while the store is unreachable
UnreachableStep(f) == mpc[f] \in TierNames /\ ~storeUp /\ mpc'[f] # mpc[f]

\* C14: when the order store cannot be reached while a tier query is running,
\* findCustomer fails with an error: it does not return null (nor a match) and
\* queries no lower-priority tier after the failed query.
C14_StoreUnavailable ==
    [][\A f \in Flows :
        UnreachableStep(f) =>
            /\ mpc'[f] = "done"
            /\ found'[f].kind \in ThrownKinds
            /\ queried'[f] = queried[f]]_vars

\* the name query of a record that also carries an address failed: the call
\* has thrown and the address tier was not queried
C14_Witness ==
    \E f \in Flows :
        /\ mpc[f] = "done"
        /\ found[f].kind = "query failed"
        /\ queried[f] = <<"phone", "name">>
        /\ guide[f].shippingAddress # ""

\* extractData of flow f has run on the text of its document
Extracted(f) == ppc[f] = "done" /\ extraction[f].kind # "none"

ChatScore(t) ==
    Cardinality({k \in {"hasTimestamp", "hasChatWords", "hasAddressIndicators",
                        "hasWhatsAppHeader", "hasWhatsAppTicks"} : t[k]})

\* C16: detectImageType is carrier_guide iff a carrier token and a tracking
\* token are present, whatever the chat score; otherwise whatsapp_chat iff at
\* least 2 of the 5 chat features are present and no carrier token is;
\* otherwise unknown.  The three results exclude one another, every text has
\* one, and the empty text is unknown.
C16_Classification ==
    \A f \in Flows :
        Extracted(f) =>
            LET t == doc[f].text
                c == extraction[f].imageType
                guideScore == t.hasCarrier /\ t.hasTracking
                chatScore == ChatScore(t) >= 2 /\ ~t.hasCarrier
            IN  /\ c \in {"carrier_guide", "whatsapp_chat", "unknown"}
                /\ c = "carrier_guide" <=> guideScore
                /\ c = "whatsapp_chat" <=> (~guideScore /\ chatScore)
                /\ c = "unknown" <=> (~guideScore /\ ~chatScore)
                /\ t = EmptyText => c = "unknown"

\* a text with a carrier token, a tracking token and all five chat features
\* is a carrier guide
C16_Witness ==
    \E f \in Flows :
        /\ Extracted(f)
        /\ doc[f].text.hasCarrier /\ doc[f].text.hasTracking
        /\ ChatScore(doc[f].text) = 5
        /\ extraction[f].imageType = "carrier_guide"

\* C17 as stated: field extraction only proceeds for carrier guides: for a
\* text classified unknown or whatsapp_chat, extractData returns no record.
C17_OnlyCarrierGuides ==
    \A f \in Flows :
        (Extracted(f) /\ extraction[f].imageType \in {"unknown", "whatsapp_chat"}) =>
            extraction[f].kind # "record"

\* C17, amended: extraction is refused for texts classified whatsapp_chat
\* only; a text classified unknown is extracted like a carrier guide, and
\* yields a record (carrier "Unknown" when no carrier token is present) when
\* it has a tracking number and a name or a phone.
C17_ChatRefusedOnly ==
    \A f \in Flows :
        Extracted(f) =>
            /\ extraction[f].imageType = "whatsapp_chat" => extraction[f].kind # "record"
            /\ (/\ extraction[f].imageType = "unknown"
                /\ doc[f].text.trackingNumber
                /\ doc[f].text.customerName \/ doc[f].text.customerPhone) =>
                    /\ extraction[f].kind = "record"
                    /\ parsed[f].kind = "record"
                    /\ ~doc[f].text.hasCarrier => parsed[f].record.carrier = "Unknown"

\* a text without a carrier token, with a tracking number, a name and a phone
\* (as in the city tests): unknown, and a record is returned
C17_Witness ==
    \E f \in Flows :
        /\ Extracted(f)
        /\ extraction[f].imageType = "unknown"
        /\ ~doc[f].text.hasCarrier
        /\ doc[f].text.trackingNumber /\ doc[f].text.customerName /\ doc[f].text.customerPhone
        /\ parsed[f].kind = "record"
        /\ parsed[f].record.carrier = "Unknown"

\* C19: for a text not classified whatsapp_chat, extractData returns a record
\* iff a tracking number AND (a name OR a phone) were extracted, else null;
\* every record has a tracking number and a raw-text excerpt of at most 1000
\* characters.
C19_ValidityGate ==
    \A f \in Flows :
        /\ (Extracted(f) /\ extraction[f].imageType # "whatsapp_chat") =>
            LET t == doc[f].text
                valid == t.trackingNumber /\ (t.customerName \/ t.customerPhone)
            IN  /\ extraction[f].kind = IF valid THEN "record" ELSE "null"
                /\ parsed[f].kind = extraction[f].kind
        /\ parsed[f].kind = "record" =>
            /\ parsed[f].record.trackingNumber \notin {"", "UNKNOWN"}
            /\ parsed[f].record.rawTextLength <= 1000
            /\ parsed[f].record.rawTextLength <= doc[f].text.length

\* a text of 2000 characters with a tracking number and a phone but no name:
\* a record with an excerpt of 1000 characters
C19_Witness ==
    \E f \in Flows :
        /\ Extracted(f)
        /\ doc[f].text.length = 2000
        /\ doc[f].text.trackingNumber /\ doc[f].text.customerPhone /\ ~doc[f].text.customerName
        /\ parsed[f].kind = "record"
        /\ parsed[f].record.rawTextLength = 1000

(* ------------------------------------------------------------------------ *)
(* Claims about the upload entry point, under SpecUpload                    *)
(* ------------------------------------------------------------------------ *)
Answered(f) == rpc[f] = "responded"
Processed(f) == 1..Len(results[f])

\* the order store was unavailable while the customer of file i was resolved
ResolutionFailed(f, i) ==
    /\ results[f][i].result \in ThrownKinds
    /\ results[f][i].called = {"matcher"}

\* C15: whenever the order store is unavailable during customer resolution,
\* the request is answered 503, with one file and with several files alike,
\* and never with a success or a no-match response.
C15_RetryLater ==
    \A f \in Flows :
        (Answered(f) /\ \E i \in Processed(f) : ResolutionFailed(f, i)) =>
            /\ response[f].status = 503
            /\ ~response[f].success
            /\ response[f].body # "no customer"

\* the text of file i was read and is classified as a chat screenshot
ChatFile(f, i) ==
    /\ results[f][i].read
    /\ detectImageType(files[f][i].text) = "whatsapp_chat"

\* no record, no null: the chat error reached the route, which called neither
\* the matcher nor the sender for the file
ChatRaised(f, i) ==
    /\ results[f][i].parse = "WhatsAppChatDetectedError"
    /\ results[f][i].result = "chat"
    /\ results[f][i].called = {}

\* C18 as stated: every text classified as a chat screenshot raises the chat
\* error through parse, and the request is answered 400 with the chat message,
\* no store query and no gateway call having been made for it.
C18_ChatAnswered400 ==
    \A f \in Flows : \A i \in Processed(f) :
        ChatFile(f, i) =>
            /\ ChatRaised(f, i)
            /\ Answered(f) => /\ response[f].status = 400
                              /\ response[f].body = "chat"

\* C18: every text classified as a chat screenshot raises the chat error
\* through parse (neither a record nor null), while a text that cannot be read
\* gives null; the matcher and the sender are not called for the file; a
\* request with that one file is answered 400 with the chat message, and in a
\* request with several files the chat message is the file's entry in the
\* results of the 200 response.
C18_ChatSignalled ==
    \A f \in Flows : \A i \in Processed(f) :
        /\ ChatFile(f, i) =>
            /\ ChatRaised(f, i)
            /\ Answered(f) =>
                 IF Len(files[f]) = 1
                 THEN /\ response[f].status = 400
                      /\ response[f].body = "chat"
                 ELSE /\ response[f].status = 200
                      /\ response[f].body = "results"
        /\ ~results[f][i].read =>
            /\ results[f][i].parse = "null"
            /\ results[f][i].result = "not a guide"

\* a request with a guide that is delivered and a chat screenshot is answered
C18_Witness ==
    \E f \in Flows :
        /\ Answered(f)
        /\ Len(results[f]) = 2
        /\ results[f][1].result = "sent"
        /\ ChatFile(f, 2)
        /\ ChatRaised(f, 2)

\* C20: whatever the outcome for each document, every uploaded file has been
\* removed by the time the response is sent (and each file as soon as the
\* handler is done with it).
C20_FilesRemoved ==
    \A f \in Flows :
        /\ \A i \in Processed(f) : ~files[f][i].present
        /\ response[f].status # 0 =>
              \A i \in 1..Len(files[f]) : ~files[f][i].present

\* a request answered after a failed store query for its first file and a
\* failed delivery for its second
C20_Witness ==
    \E f \in Flows :
        /\ Answered(f)
        /\ Len(results[f]) = 2
        /\ ResolutionFailed(f, 1)
        /\ results[f][2].result = "send failed"
        /\ \A i \in 1..Len(files[f]) : ~files[f][i].present

\* C28: whenever the upload route reports success for a document, the write
\* back has been done: updateOrderTracking returned true for the matched
\* order, which is no longer eligible for matching.
C28_SuccessMeansWritten ==
    \A f \in Flows : \A i \in Processed(f) :
        results[f][i].result = "sent" =>
            /\ results[f][i].match \in shipped
            /\ ~IsEligible(orders[results[f][i].match])

\* the document flow f is working on shows no customer name
NamelessDocument(f) ==
    /\ rpc[f] \in {"match", "send", "update"}
    /\ ~files[f][cur[f]].text.customerName

\* C29: for a record extracted from a text in which no customer name was
\* found, findCustomer issues no name-tier query: after the phone tier only
\* the address tier may be queried.
C29_NoPlaceholderNameQuery ==
    \A f \in Flows :
        NamelessDocument(f) => \A i \in 1..Len(queried[f]) : queried[f][i] # "name"

(* ------------------------------------------------------------------------ *)
(* Claims about the end of sendGuide calls, under SpecTermination           *)
(* ------------------------------------------------------------------------ *)
\* gateway requests issued so far by the sendGuide call of caller p
Issued(p) == reqs[p].text + reqs[p].media

\* operations of the sendGuide call of caller p that ended in recordFailure
Recorded(p) == {o \in {"text", "media"} : opResult[p][o] = "failed"}

\* the sendGuide call of caller p has produced its boolean
Returned(p) == pc[p] = "done" /\ result[p] \in {"true", "false"}

\* C30: every sendGuide call that was started ends with a boolean, given that
\* requests settle and sleeps end; at every moment the call has issued at most
\* 2 * (maxRetries + 1) gateway requests and recorded at most one failure.
C30_CallTerminates ==
    /\ [](\A p \in Racers : /\ Issued(p) <= 2 * (cfg.maxRetries + 1)
                            /\ Cardinality(Recorded(p)) <= 1)
    /\ \A p \in Racers : (pc[p] # "idle") ~> Returned(p)

\* a call that used every attempt of both operations and ended on a recorded
\* failure of the media operation
C30_Witness ==
    \E p \in Racers :
        /\ Returned(p)
        /\ result[p] = "false"
        /\ cfg.maxRetries >= 1
        /\ Issued(p) = 2 * (cfg.maxRetries + 1)
        /\ Recorded(p) = {"media"}

(* ------------------------------------------------------------------------ *)
(* Claims about runs of sendGuide calls, under SpecCalls                    *)
(* ------------------------------------------------------------------------ *)
\* the step in which the failureThreshold-th sendGuide call in a row returns
\* false because of a gateway failure
ThresholdCallStep ==
    /\ guideStreak.calls = Threshold - 1
    /\ guideStreak'.calls = Threshold

\* the step in which the media operation of caller p fails for good
MediaGivenUp(p) ==
    /\ FailStep(p)
    /\ op[p] = "media"
    /\ opResult'[p].media = "failed"

\* C21 as stated: from CLOSED with counter 0, once failureThreshold sendGuide
\* calls in a row have returned false because of gateway failures, in the
\* text operation or in the media operation, the circuit is OPEN.
C21_OpensAfterFailedCalls ==
    [][ThresholdCallStep => circuitState' = "OPEN"]_vars

\* C21: from CLOSED with counter 0, once failureThreshold sendGuide calls in a
\* row have returned false because their text operation failed at the
\* gateway, the circuit is OPEN.  A call whose media operation fails has had
\* its counter reset by the success of its text operation: it leaves the
\* counter at 1, and the circuit OPEN only when failureThreshold is 1.
C21_OpensAfterFailedTexts ==
    /\ [][(ThresholdCallStep /\ guideStreak'.allText) => circuitState' = "OPEN"]_vars
    /\ [][\A p \in Procs :
            MediaGivenUp(p) => /\ failureCount' = 1
                               /\ circuitState' = "OPEN" <=> Threshold = 1]_vars

\* the second of two calls that failed in their text operation has returned
\* false, and the circuit is OPEN
C21_Witness ==
    /\ Threshold >= 2
    /\ guideStreak.calls = Threshold
    /\ guideStreak.allText
    /\ circuitState = "OPEN"
    /\ \E p \in Procs : pc[p] = "done" /\ result[p] = "false" /\ opResult[p].text = "failed"

(* ------------------------------------------------------------------------ *)
(* Claims about the two entry points side by side, under SpecFlows          *)
(* ------------------------------------------------------------------------ *)
\* what has been done for the documents of flow f, the current one included
Documents(f) ==
    {results[f][i] : i \in 1..Len(results[f])}
        \cup (IF rpc[f] \in {"match", "send", "update"} THEN {work[f]} ELSE {})

\* the collaborators called for document w, in the order of the calls
StepsInOrder(w) ==
    /\ w.called \in {{}, {"matcher"}, {"matcher", "sender"}, {"matcher", "sender", "update"}}
    /\ w.parse # "record" => w.called = {}
    /\ w.match = "none" => "sender" \notin w.called
    /\ "sender" \notin w.called => w.sent = "none"
    /\ "update" \in w.called <=> w.sent = "true"
    /\ IF w.sent = "true"
       THEN w.update = [orderNumber |-> w.match,
                        trackingNumber |-> w.record.trackingNumber,
                        carrier |-> w.record.carrier]
       ELSE w.update = NoUpdate

\* the order o is written by this step
Written(o) == orders'[o] # orders[o]

\* C22: in the upload route and in processGuide, the steps of a document run
\* in the order extract, resolve, deliver, write-back: the gateway is not
\* called without a record and a match, and updateOrderTracking is called only
\* after sendGuide returned true for the document, with the extracted tracking
\* number and carrier and the matched order number; an order is written only
\* by such a call.
C22_StepOrder ==
    /\ [](\A f \in Flows : \A w \in Documents(f) : StepsInOrder(w))
    /\ [][\A o \in OrderNumbers :
            Written(o) =>
                \E f \in Flows :
                    /\ rpc[f] = "update"
                    /\ work[f].sent = "true"
                    /\ work[f].match = o
                    /\ orders'[o].tracking_number = work[f].record.trackingNumber]_vars

\* both flows have delivered their document and written its order back
C22_Witness ==
    /\ rpc["upload"] = "responded"
    /\ rpc["watch"] = "returned"
    /\ \A f \in Flows :
          /\ Len(results[f]) = 1
          /\ results[f][1].called = {"matcher", "sender", "update"}
          /\ results[f][1].match \in shipped
    /\ results["upload"][1].match # results["watch"][1].match

\* both documents were matched to the same order
SameOrder(w1, w2) == w1.match # "none" /\ w1.match = w2.match

\* C27: of two documents processed side by side whose records match the same
\* eligible order, at most one is delivered: the order does not receive two
\* successful sendGuide deliveries.
C27_OneDeliveryPerOrder ==
    \A f, g \in Flows :
        f # g =>
            \A w1 \in Documents(f) : \A w2 \in Documents(g) :
                SameOrder(w1, w2) => ~(w1.sent = "true" /\ w2.sent = "true")

(* ------------------------------------------------------------------------ *)
(* Claims about the folder watcher, under SpecWatcher                       *)
(* ------------------------------------------------------------------------ *)
\* C23: the callback is invoked at most once for each document dropped into
\* the watch folder, the file is in the processed subfolder only once the
\* callback started for it has completed, and the moved file does not trigger
\* a second invocation.
C23_OncePerDocument ==
    /\ \A n \in FileNames : invocations[n] <= 1
    /\ \A path \in Paths :
          (path.dir = "processed" /\ path \in folder) =>
              wpc[[dir |-> "watch", name |-> path.name]] = "moved"

(* ------------------------------------------------------------------------ *)
(* Claims about concurrent callers of one sender, under SpecConcurrent      *)
(* ------------------------------------------------------------------------ *)
\* C24: under any interleaving of sendGuide calls, health probes and resets,
\* the circuit is CLOSED if and only if the failure counter is below
\* failureThreshold.
C24_ClosedIffBelowThreshold ==
    circuitState = "CLOSED" <=> failureCount < Threshold

\* the circuit is OPEN with more failures than the threshold, while one
\* caller has a request in flight, the other has returned and a probe is
\* under way
C24_Witness ==
    /\ circuitState = "OPEN"
    /\ failureCount > Threshold
    /\ \E p, q \in Racers : pc[p] = "request" /\ pc[q] = "done"
    /\ hpc = "probing"

\* caller p issues a gateway request in this step
IssueStep(p) == \E o \in {"text", "media"} : reqs'[p][o] = reqs[p][o] + 1

\* C25: under any interleaving of concurrent sendGuide calls, no gateway
\* request is issued while the circuit is OPEN, not even by a call that
\* passed the circuit check before its backoff sleep.
C25_NoRequestWhileOpen ==
    [][\A p \in Procs : IssueStep(p) => circuitState' # "OPEN"]_vars

\* C26: under any interleaving of concurrent sendGuide calls, the circuit
\* goes from OPEN to CLOSED only by resetCircuitBreaker: a request in flight
\* when the circuit opened neither closes it nor resets the failure counter
\* when it succeeds.
C26_ClosesThroughHalfOpen ==
    [][(circuitState = "OPEN" /\ (circuitState' = "CLOSED" \/ failureCount' < failureCount))
            => ResetStep]_vars

TypeOK ==
    /\ cfg \in Configs \cup BackoffConfigs
    /\ circuitState \in {"CLOSED", "OPEN", "HALF_OPEN"}
    /\ failureCount \in Nat
    /\ lastFailureTime \in 0..MaxTime
    /\ now \in 1..MaxTime
    /\ pc \in [Procs -> {"idle", "start", "request", "sleep", "done"}]
    /\ op \in [Procs -> {"text", "media"}]
    /\ attempt \in [Procs -> 0..cfg.maxRetries]
    /\ result \in [Procs -> {"none", "true", "false"}]
    /\ rpc \in [Flows -> {"idle", "parse", "match", "send", "update", "responded",
                          "returned"}]
    /\ \A f \in Flows :
          /\ Len(files[f]) <= MaxFiles
          /\ cur[f] \in 0..Len(files[f])
          /\ Len(results[f]) <= Len(files[f])
          /\ response[f].status \in {0, 200, 400, 500, 503}

====
